---- MODULE Spec2Model ----
(***************************************************************************)
(* Descriptor index algebra of rascaline: the Indexes table, the           *)
(* Descriptor container (prepare / prepare_gradients), Descriptor::densify *)
(* and Descriptor::dot, modelled from                                      *)
(*   src/rascaline/src/descriptor/descriptor.rs                            *)
(*   src/src/descriptor/indexes/mod.rs                                     *)
(*                                                                         *)
(* Conventions.  Row and column indices stored in the model are 0-based,   *)
(* as in the source; TLA+ sequences are 1-based, so element i of a Vec is  *)
(* seq[i + 1].  Option<T> is a sequence: <<>> is None, <<x>> is Some(x).   *)
(* f64 entries are integers, i.e. arithmetic is exact.  A fatal failure    *)
(* (panic!, assert!, expect, out-of-bounds slice) is the status "Panic".   *)
(***************************************************************************)
EXTENDS FiniteSets, Integers, Sequences, TLC

VARIABLES
    d,       \* the receiver Descriptor (self of prepare / densify, lhs of dot)
    call,    \* the last operation: its name, arguments, receiver before, result
    kernel   \* the `output` descriptor of rascal_descriptor_dot

vars == <<d, call, kernel>>

---------------------------------------------------------------------------
(* Bounds of the model *)

\* largest number of rows of a samples table handed to prepare
MaxRows == 2
\* largest number of rows of the `requested` array handed to densify
MaxRequested == 2
\* largest number of rows of a gradient samples table handed to prepare_gradients
MaxGradRows == 1

\* largest number of rows of the samples of the right hand side of dot
MaxOtherRows == 1
\* densify calls in a row on one descriptor
MaxDensify == 2

\* the IndexValue's that appear in index rows
IndexValues == {0, 1}

---------------------------------------------------------------------------
(* Generic helpers *)

None == <<>>
Some(x) == <<x>>
IsSome(o) == o # <<>>
Unwrap(o) == o[1]

Range(s) == {s[i] : i \in 1..Len(s)}

SeqsUpTo(S, n) == UNION {[1..k -> S] : k \in 0..n}

\* Ord of Vec<IndexValue>: lexicographic, a strict prefix is smaller
RECURSIVE LexLess(_, _)
LexLess(a, b) ==
    IF b = <<>> THEN FALSE
    ELSE IF a = <<>> THEN TRUE
    ELSE IF Head(a) < Head(b) THEN TRUE
    ELSE IF Head(a) > Head(b) THEN FALSE
    ELSE LexLess(Tail(a), Tail(b))

\* iteration order of a BTreeSet<Vec<IndexValue>>: ascending
RECURSIVE BTreeIter(_)
BTreeIter(set) ==
    IF set = {} THEN <<>>
    ELSE LET least == CHOOSE x \in set : \A y \in set \ {x} : LexLess(x, y)
         IN  <<least>> \o BTreeIter(set \ {least})

---------------------------------------------------------------------------
(* Indexes / IndexesBuilder *)

\* char::is_ascii_digit
IsAsciiDigit(c) == c \in {"0", "1", "2", "3", "4", "5", "6", "7", "8", "9"}

\* char::is_ascii_alphanumeric
IsAsciiAlphanumeric(c) ==
    \/ IsAsciiDigit(c)
    \/ c \in {"a", "b", "c", "d", "e", "f", "g", "h", "i", "j", "k", "l", "m",
              "n", "o", "p", "q", "r", "s", "t", "u", "v", "w", "x", "y", "z",
              "A", "B", "C", "D", "E", "F", "G", "H", "I", "J", "K", "L", "M",
              "N", "O", "P", "Q", "R", "S", "T", "U", "V", "W", "X", "Y", "Z"}

\* is_valid_ident without the test of the first character
IsValidIdentAnyFirst(name) ==
    /\ name # <<>>
    /\ \A i \in 1..Len(name) : IsAsciiAlphanumeric(name[i]) \/ name[i] = "_"

\* is_valid_ident, of a name given as the sequence of its characters: false
\* for the empty name, and at the first character that is a digit in front
\* or that is neither alphanumeric nor '_'
IsValidIdent(name) ==
    IF name = <<>> THEN FALSE
    ELSE \A i \in 1..Len(name) :
            /\ ~(i = 1 /\ IsAsciiDigit(name[i]))
            /\ IsAsciiAlphanumeric(name[i]) \/ name[i] = "_"

\* the panic! of IndexesBuilder::new, for names given character by character
BuilderNewPanics(names) ==
    \E k \in 1..Len(names) : ~IsValidIdent(names[k])

\* IndexesBuilder::new: the names, and an empty linearized buffer
BuilderNew(names) == [names |-> names, values |-> <<>>]

\* IndexesBuilder::size, Indexes::size
Size(idx) == Len(idx.names)

\* assert_eq!(self.size(), values.len()) of IndexesBuilder::add
AddPanics(builder, row) == Size(builder) # Len(row)

\* IndexesBuilder::add, when the assertion holds
BuilderAdd(builder, row) ==
    [names |-> builder.names, values |-> builder.values \o row]

RECURSIVE BuilderAddAll(_, _)
BuilderAddAll(builder, rows) ==
    IF rows = <<>> THEN builder
    ELSE BuilderAddAll(BuilderAdd(builder, Head(rows)), Tail(rows))

\* IndexesBuilder::finish
Finish(builder) == [names |-> builder.names, values |-> builder.values]

\* the length of the buffer taken as the number of entries
CountValues(idx) == Len(idx.values)

\* Indexes::count
Count(idx) ==
    IF Size(idx) = 0 THEN 0 ELSE Len(idx.values) \div Size(idx)

\* Indexes::value, `linear` 0-based
Value(idx, linear) ==
    SubSeq(idx.values, linear * Size(idx) + 1, (linear + 1) * Size(idx))

\* Indexes::iter collected: Iter::next splits `size` values off the buffer
\* until the buffer is empty
RECURSIVE IterFrom(_, _)
IterFrom(size, values) ==
    IF Len(values) = 0 THEN <<>>
    ELSE <<SubSeq(values, 1, size)>>
         \o IterFrom(size, SubSeq(values, size + 1, Len(values)))

Iter(idx) == IterFrom(Size(idx), idx.values)

\* Indexes::position: the 0-based index of the first row equal to `row`
Position(idx, row) ==
    LET rows == Iter(idx)
        hits == {i \in 1..Len(rows) : rows[i] = row}
    IN  IF hits = {} THEN None
        ELSE Some((CHOOSE i \in hits : \A j \in hits : i <= j) - 1)

\* an Indexes built by adding `rows` to a builder over `names`
IndexesOf(names, rows) == Finish(BuilderAddAll(BuilderNew(names), rows))

---------------------------------------------------------------------------
(* Array2<f64> *)

\* Array2::zeros / Array2::from_elem(shape, 0.0)
Zeros(nrows, ncols) ==
    [nrows |-> nrows, ncols |-> ncols,
     data  |-> [i \in 1..nrows |-> [j \in 1..ncols |-> 0]]]

\* array.slice(s![row, ..]), row 0-based
RowOf(array, row) == array.data[row + 1]

\* array.slice_mut(s![row, start..stop]).assign(&value), 0-based
AssignSlice(array, row, start, value) ==
    [array EXCEPT !.data[row + 1] =
        [j \in 1..array.ncols |->
            IF j - 1 >= start /\ j - 1 < start + Len(value)
            THEN value[j - start] ELSE @[j]]]

\* the slice s![row, start..stop] is out of bounds: ndarray panics
SliceOutOfBounds(array, row, stop) ==
    row >= array.nrows \/ stop > array.ncols

\* tmp.into_raw_vec(): the entries in row-major order
RECURSIVE Concat(_)
Concat(rows) == IF rows = <<>> THEN <<>> ELSE Head(rows) \o Concat(Tail(rows))

IntoRawVec(array) == Concat(array.data)

\* data.resize(len, 0.0): cut, or filled up with 0.0 at the end
Resize(data, len) ==
    IF Len(data) >= len THEN SubSeq(data, 1, len)
    ELSE data \o [k \in 1..(len - Len(data)) |-> 0]

\* Array2::from_shape_vec(shape, data), data of the length of the shape
FromShapeVec(nrows, ncols, data) ==
    [nrows |-> nrows, ncols |-> ncols,
     data  |-> [i \in 1..nrows |-> [j \in 1..ncols |-> data[(i - 1) * ncols + j]]]]

\* values.fill(x)
Fill(array, x) ==
    [array EXCEPT !.data = [i \in 1..array.nrows |-> [j \in 1..array.ncols |-> x]]]

\* resize_and_reset without `values.fill(0.0)`
ResizeAndResetNoFill(array, nrows, ncols) ==
    FromShapeVec(nrows, ncols, Resize(IntoRawVec(array), nrows * ncols))

\* resize_and_reset: the storage of the array is taken, resized, given the
\* shape and filled with 0.0
ResizeAndReset(array, nrows, ncols) ==
    Fill(FromShapeVec(nrows, ncols, Resize(IntoRawVec(array), nrows * ncols)), 0)

---------------------------------------------------------------------------
(* remove_from_samples *)

\* names.iter().position(|name| name == v), 0-based
NamePosition(names, v) ==
    LET hits == {i \in 1..Len(names) : names[i] = v}
    IN  IF hits = {} THEN None
        ELSE Some((CHOOSE i \in hits : \A j \in hits : i <= j) - 1)

\* some variable is not a column of the samples: the Err of the first loop
MissingVariable(samples, variables) ==
    \E k \in 1..Len(variables) : NamePosition(samples.names, variables[k]) = None

\* variables_positions, one entry per variable, in the order given
VariablesPositions(samples, variables) ==
    [k \in 1..Len(variables) |-> Unwrap(NamePosition(samples.names, variables[k]))]

\* variables_positions.iter().sorted().rev(): descending, duplicates kept
RECURSIVE SortedRev(_)
SortedRev(positions) ==
    IF positions = <<>> THEN <<>>
    ELSE LET k == CHOOSE k \in 1..Len(positions) :
                      \A j \in 1..Len(positions) : positions[j] <= positions[k]
         IN  <<positions[k]>>
             \o SortedRev(SubSeq(positions, 1, k - 1)
                          \o SubSeq(positions, k + 1, Len(positions)))

\* new_sample.remove(i) for each i in turn; Vec::remove panics when i >= len
RECURSIVE RemoveEach(_, _)
RemoveEach(row, positions) ==
    IF positions = <<>> THEN [panic |-> FALSE, row |-> row]
    ELSE IF Head(positions) >= Len(row) THEN [panic |-> TRUE, row |-> row]
    ELSE RemoveEach(SubSeq(row, 1, Head(positions))
                    \o SubSeq(row, Head(positions) + 2, Len(row)),
                    Tail(positions))

\* IndexSet::insert_full: the index of the value, and the set (as the
\* sequence of its elements in insertion order) with the value in it
InsertFull(set, value) ==
    LET hits == {i \in 1..Len(set) : set[i] = value}
    IN  IF hits = {} THEN [index |-> Len(set), set |-> Append(set, value)]
        ELSE [index |-> (CHOOSE i \in hits : TRUE) - 1, set |-> set]

\* the key of one sample: new_feature.push(sample[i]) for each position
NewFeature(sample, positions) ==
    [k \in 1..Len(positions) |-> sample[positions[k] + 1]]

\* the loop over samples.iter().enumerate(), from row `old_sample_i` on
RECURSIVE ReduceLoop(_, _, _, _)
ReduceLoop(rows, positions, old_sample_i, acc) ==
    IF old_sample_i >= Len(rows) THEN acc
    ELSE LET sample   == rows[old_sample_i + 1]
             feature  == NewFeature(sample, positions)
             removed  == RemoveEach(sample, SortedRev(positions))
             inserted == InsertFull(acc.new_samples, removed.row)
         IN  IF removed.panic THEN [acc EXCEPT !.panic = TRUE]
             ELSE ReduceLoop(rows, positions, old_sample_i + 1,
                    [panic        |-> FALSE,
                     new_samples  |-> inserted.set,
                     new_features |-> acc.new_features \cup {feature},
                     mapping      |-> Append(acc.mapping,
                                        [old_sample_i |-> old_sample_i,
                                         new_sample_i |-> inserted.index,
                                         variables    |-> feature])])

\* the names of the samples, those listed in `variables` included
RemainingNamesAll(samples, variables) == samples.names

\* samples.names() without the names listed in `variables`
RemainingNames(samples, variables) ==
    SelectSeq(samples.names, LAMBDA name : name \notin Range(variables))

EmptyIndexes == Finish(BuilderNew(<<>>))

RemovedSamples(status, samples, new_features, mapping) ==
    [status |-> status, samples |-> samples,
     new_features |-> new_features, mapping |-> mapping]

\* remove_from_samples(samples, variables) -> Result<RemovedSamples, Error>
RemoveFromSamples(samples, variables) ==
    IF MissingVariable(samples, variables)
    THEN RemovedSamples("InvalidParameter", EmptyIndexes, {}, <<>>)
    ELSE LET positions == VariablesPositions(samples, variables)
             loop == ReduceLoop(Iter(samples), positions, 0,
                        [panic |-> FALSE, new_samples |-> <<>>,
                         new_features |-> {}, mapping |-> <<>>])
             builder == BuilderNew(RemainingNames(samples, variables))
         IN  IF loop.panic
                \/ \E i \in 1..Len(loop.new_samples) :
                        AddPanics(builder, loop.new_samples[i])
             THEN RemovedSamples("Panic", EmptyIndexes, {}, <<>>)
             ELSE RemovedSamples("Ok",
                    Finish(BuilderAddAll(builder, loop.new_samples)),
                    loop.new_features, loop.mapping)

---------------------------------------------------------------------------
(* Descriptor *)

Descriptor(values, samples, features, gradients, gradients_samples) ==
    [values |-> values, samples |-> samples, features |-> features,
     gradients |-> gradients, gradients_samples |-> gradients_samples]

\* Descriptor::new
New == Descriptor(Zeros(0, 0), EmptyIndexes, EmptyIndexes, None, None)

\* Descriptor::prepare
Prepare(self, samples, features) ==
    Descriptor(ResizeAndReset(self.values, Count(samples), Count(features)),
               samples, features, None, None)

\* assert_eq!(gradients.names().last(), Some(&"spatial"))
PrepareGradientsPanics(gradients) ==
    Size(gradients) = 0 \/ gradients.names[Size(gradients)] # "spatial"

\* prepare_gradients with the gradients of as many rows as the values
PrepareGradientsSampleRows(self, samples, gradients, features) ==
    Descriptor(ResizeAndReset(self.values, Count(samples), Count(features)),
               samples, features,
               Some(IF IsSome(self.gradients)
                    THEN ResizeAndReset(Unwrap(self.gradients),
                                        Count(samples), Count(features))
                    ELSE Zeros(Count(samples), Count(features))),
               Some(gradients))

\* Descriptor::prepare_gradients, when the assertion holds
PrepareGradients(self, samples, gradients, features) ==
    Descriptor(ResizeAndReset(self.values, Count(samples), Count(features)),
               samples, features,
               Some(IF IsSome(self.gradients)
                    THEN ResizeAndReset(Unwrap(self.gradients),
                                        Count(gradients), Count(features))
                    ELSE Zeros(Count(gradients), Count(features))),
               Some(gradients))

---------------------------------------------------------------------------
(* Descriptor::densify *)

\* the rows of `requested` collected in a BTreeSet
RequestedFeatures(requested) == Range(requested.data)

\* FeatureBlocks with the loops swapped: feature-row-major, key-minor
RECURSIVE FeatureBlocksFeatureMajor(_, _)
FeatureBlocksFeatureMajor(keys, features) ==
    IF features = <<>> THEN <<>>
    ELSE [i \in 1..Len(keys) |-> keys[i] \o Head(features)]
         \o FeatureBlocksFeatureMajor(keys, Tail(features))

\* the new features: `variables` in front of the old names, and for every
\* key, in the order of the BTreeSet, every old feature row
RECURSIVE FeatureBlocks(_, _)
FeatureBlocks(keys, features) ==
    IF keys = <<>> THEN <<>>
    ELSE [i \in 1..Len(features) |-> Head(keys) \o features[i]]
         \o FeatureBlocks(Tail(keys), features)

NewFeatures(variables, requested_features, features) ==
    Finish(BuilderAddAll(BuilderNew(variables \o features.names),
             FeatureBlocks(BTreeIter(requested_features), Iter(features))))

\* CopyRow that ignores the block of the key: every row goes to the first block
CopyRowFirstBlock(new_array, old_array, changed, new_features, first_feature_tail, old_feature_size) ==
    LET start == Position(new_features, changed.variables \o first_feature_tail)
    IN  IF start = None THEN [panic |-> FALSE, array |-> new_array]
        ELSE IF SliceOutOfBounds(new_array, changed.new_sample_i, old_feature_size)
        THEN [panic |-> TRUE, array |-> new_array]
        ELSE [panic |-> FALSE,
              array |-> AssignSlice(new_array, changed.new_sample_i, 0,
                                    RowOf(old_array, changed.old_sample_i))]

\* one step of `for changed in mapping`: the old row goes to the block of
\* its key, if new_features holds that block
CopyRow(new_array, old_array, changed, new_features, first_feature_tail, old_feature_size) ==
    LET start == Position(new_features, changed.variables \o first_feature_tail)
    IN  IF start = None THEN [panic |-> FALSE, array |-> new_array]
        ELSE IF SliceOutOfBounds(new_array, changed.new_sample_i,
                                 Unwrap(start) + old_feature_size)
        THEN [panic |-> TRUE, array |-> new_array]
        ELSE [panic |-> FALSE,
              array |-> AssignSlice(new_array, changed.new_sample_i, Unwrap(start),
                                    RowOf(old_array, changed.old_sample_i))]

\* the loop `for changed in mapping`, from entry k (1-based) on
RECURSIVE CopyLoop(_, _, _, _, _, _, _)
CopyLoop(new_array, old_array, mapping, k, new_features, first_feature_tail, old_feature_size) ==
    IF k > Len(mapping) THEN [panic |-> FALSE, array |-> new_array]
    ELSE LET step == CopyRow(new_array, old_array, mapping[k], new_features,
                             first_feature_tail, old_feature_size)
         IN  IF step.panic THEN step
             ELSE CopyLoop(step.array, old_array, mapping, k + 1, new_features,
                           first_feature_tail, old_feature_size)

DensifyResult(status, descriptor, warnings) ==
    [status |-> status, descriptor |-> descriptor, warnings |-> warnings]

\* the new gradients allocated and left as they are: no row is copied
CopyGradientsSkipped(self, new_gradients_samples, new_features) ==
    [panic |-> FALSE,
     array |-> Zeros(Count(new_gradients_samples.samples), Count(new_features))]

\* the new gradients: `Array2::zeros(..)`, then the loop over the mapping of
\* the gradient samples that copies the old gradient rows
CopyGradients(self, new_gradients_samples, new_features) ==
    CopyLoop(Zeros(Count(new_gradients_samples.samples), Count(new_features)),
             Unwrap(self.gradients), new_gradients_samples.mapping, 1,
             new_features, Iter(self.features)[1], Count(self.features))

\* the warning the other way round: for the requested keys that no sample
\* carries
WarnedWithoutData(new_features, requested_features) ==
    requested_features \ new_features

\* `for f in &new_samples.new_features { if !requested_features.contains(f)
\* { warn!(..) } }`: the keys warned about
Warned(new_features, requested_features) ==
    {f \in new_features : f \notin requested_features}

\* the body of densify once the samples are reduced: lines 195-279
DensifyBuild(self, variables, requested, new_samples, new_gradients_samples) ==
    LET warnings ==
            IF IsSome(requested)
            THEN Warned(new_samples.new_features, RequestedFeatures(Unwrap(requested)))
            ELSE {}
        requested_features ==
            IF IsSome(requested) THEN RequestedFeatures(Unwrap(requested))
            ELSE new_samples.new_features
        new_features == NewFeatures(variables, requested_features, self.features)
        old_feature_size == Count(self.features)
        first_feature_tail == Iter(self.features)[1]
        values == CopyLoop(Zeros(Count(new_samples.samples), Count(new_features)),
                           self.values, new_samples.mapping, 1, new_features,
                           first_feature_tail, old_feature_size)
        gradients ==
            CopyGradients(self, Unwrap(new_gradients_samples), new_features)
    IN  IF Count(self.features) = 0
        THEN DensifyResult("Panic", self, warnings)       \* expect("missing first feature")
        ELSE IF values.panic
        THEN DensifyResult("Panic", self, warnings)
        ELSE IF ~IsSome(self.gradients)
        THEN DensifyResult("Ok",
                Descriptor(values.array, new_samples.samples, new_features,
                           self.gradients, self.gradients_samples),
                warnings)
        ELSE IF ~IsSome(new_gradients_samples)
        THEN DensifyResult("Panic", self, warnings)       \* expect("missing densified gradients")
        ELSE IF gradients.panic
        THEN DensifyResult("Panic", self, warnings)
        ELSE DensifyResult("Ok",
                Descriptor(values.array, new_samples.samples, new_features,
                           Some(gradients.array),
                           Some(Unwrap(new_gradients_samples).samples)),
                warnings)

\* `if variables.is_empty() || self.features.size() == 0 { return Ok(()) }`
DensifyNoOp(self, variables) ==
    variables = <<>> \/ Size(self.features) = 0

\* the shape check on the number of rows, shape[0], instead of shape[1]
RequestedShapeErrorRows(variables, requested) ==
    IsSome(requested) /\ Unwrap(requested).nrows # Len(variables)

\* `if shape[1] != variables.len()` on a `requested` that is given
RequestedShapeError(variables, requested) ==
    IsSome(requested) /\ Unwrap(requested).ncols # Len(variables)

\* a failure after the gradients were taken out of the receiver
DensifyFailedGradientsTaken(self, status) ==
    DensifyResult(status, [self EXCEPT !.gradients = None], {})

\* `return Err(..)` and `?`, and a panic: nothing was assigned to self yet
DensifyFailed(self, status) == DensifyResult(status, self, {})

\* the check that only looks for keys of the gradient samples that the
\* samples lack
GradientKeysNotAmong(new_gradients_samples, new_samples) ==
    ~(new_gradients_samples.new_features \subseteq new_samples.new_features)

\* `if new_gradients_samples.new_features != new_samples.new_features`
GradientKeysDiffer(new_gradients_samples, new_samples) ==
    new_gradients_samples.new_features # new_samples.new_features

\* Descriptor::densify(&mut self, variables, requested) -> Result<(), Error>:
\* the status, the receiver afterwards and the keys warned about
Densify(self, variables, requested) ==
    IF DensifyNoOp(self, variables)
    THEN DensifyResult("Ok", self, {})
    ELSE IF RequestedShapeError(variables, requested)
    THEN DensifyFailed(self, "InvalidParameter")
    ELSE LET new_samples == RemoveFromSamples(self.samples, variables)
             removed_gradients ==
                 RemoveFromSamples(Unwrap(self.gradients_samples), variables)
         IN  IF new_samples.status # "Ok"
             THEN DensifyFailed(self, new_samples.status)
             ELSE IF ~IsSome(self.gradients_samples)
             THEN DensifyBuild(self, variables, requested, new_samples, None)
             ELSE IF removed_gradients.status # "Ok"
             THEN DensifyFailed(self, removed_gradients.status)
             ELSE IF GradientKeysDiffer(removed_gradients, new_samples)
             THEN DensifyFailed(self, "Panic")
             ELSE DensifyBuild(self, variables, requested, new_samples,
                               Some(removed_gradients))

---------------------------------------------------------------------------
(* Descriptor::dot *)

\* lhs_slice.dot(&rhs_slice) of two rows of the same length
RECURSIVE InnerProduct(_, _)
InnerProduct(a, b) ==
    IF a = <<>> THEN 0
    ELSE Head(a) * Head(b) + InnerProduct(Tail(a), Tail(b))

\* build_features_id giving every entry an id of its own, whatever its key
BuildFeaturesIdPerEntry(features, mapping, acc) ==
    [features |-> features \o [k \in 1..Len(mapping) |-> mapping[k].variables],
     mapping  |-> acc \o [k \in 1..Len(mapping) |->
                    [new |-> mapping[k].new_sample_i,
                     old |-> mapping[k].old_sample_i,
                     feature |-> Len(features) + k - 1]]]

\* the closure build_features_id applied to one mapping: `features` is the
\* BTreeMap from keys to ids, kept as the sequence of its keys by id; every
\* entry becomes (new_sample_i, old_sample_i, feature_id)
RECURSIVE BuildFeaturesId(_, _, _)
BuildFeaturesId(features, mapping, acc) ==
    IF mapping = <<>> THEN [features |-> features, mapping |-> acc]
    ELSE LET densified  == Head(mapping)
             next_id    == Len(features)
             known      == {i \in 1..Len(features) : features[i] = densified.variables}
             feature_id == IF known = {} THEN next_id
                           ELSE (CHOOSE i \in known : TRUE) - 1
         IN  BuildFeaturesId(
                IF known = {} THEN Append(features, densified.variables) ELSE features,
                Tail(mapping),
                Append(acc, [new |-> densified.new_sample_i,
                             old |-> densified.old_sample_i,
                             feature |-> feature_id]))

\* the inner loop of compute_dot_products_indexes without the test on the ids
RhsIndexesAnyFeature(feature_lhs, rhs) ==
    [k \in 1..Len(rhs) |-> [old_rhs |-> rhs[k].old, new_rhs |-> rhs[k].new]]

\* the inner loop of compute_dot_products_indexes: the (old_rhs, new_rhs) of
\* the rhs entries whose id is feature_lhs
RhsIndexes(feature_lhs, rhs) ==
    LET matching == SelectSeq(rhs, LAMBDA entry : entry.feature = feature_lhs)
    IN  [k \in 1..Len(matching) |->
            [old_rhs |-> matching[k].old, new_rhs |-> matching[k].new]]

\* compute_dot_products_indexes: rows[new_lhs].push(..) for every lhs entry;
\* indexing rows out of bounds panics
RECURSIVE ComputeDotProductsIndexes(_, _, _)
ComputeDotProductsIndexes(lhs, rhs, rows) ==
    IF lhs = <<>> THEN [panic |-> FALSE, rows |-> rows]
    ELSE IF Head(lhs).new >= Len(rows) THEN [panic |-> TRUE, rows |-> rows]
    ELSE ComputeDotProductsIndexes(Tail(lhs), rhs,
            [rows EXCEPT ![Head(lhs).new + 1] =
                Append(@, [old_lhs |-> Head(lhs).old,
                           rhs_indexes |-> RhsIndexes(Head(lhs).feature, rhs)])])

\* `for &(old_rhs, new_rhs) in &index.rhs_indexes { row[new_rhs] += .. }`
RECURSIVE AccumulateRhs(_, _, _, _)
AccumulateRhs(row, lhs_slice, rhs_indexes, rhs) ==
    IF rhs_indexes = <<>> THEN [panic |-> FALSE, row |-> row]
    ELSE IF Head(rhs_indexes).new_rhs >= Len(row) THEN [panic |-> TRUE, row |-> row]
    ELSE AccumulateRhs(
            [row EXCEPT ![Head(rhs_indexes).new_rhs + 1] =
                @ + InnerProduct(lhs_slice, RowOf(rhs, Head(rhs_indexes).old_rhs))],
            lhs_slice, Tail(rhs_indexes), rhs)

\* the task of one output row: `for index in row_indexes { .. }`
RECURSIVE RowTask(_, _, _, _)
RowTask(row, row_indexes, lhs, rhs) ==
    IF row_indexes = <<>> THEN [panic |-> FALSE, row |-> row]
    ELSE LET index == Head(row_indexes)
             step  == AccumulateRhs(row, RowOf(lhs, index.old_lhs),
                                    index.rhs_indexes, rhs)
         IN  IF step.panic THEN step
             ELSE RowTask(step.row, Tail(row_indexes), lhs, rhs)

\* Zip::from(array.rows_mut()).and(&indexes).par_for_each(..): every row is
\* written by its own task
ParForEach(array, indexes, lhs, rhs) ==
    LET tasks == [r \in 1..array.nrows |->
                    RowTask(array.data[r], indexes[r], lhs, rhs)]
    IN  [panic |-> \E r \in 1..array.nrows : tasks[r].panic,
         array |-> [array EXCEPT !.data = [r \in 1..array.nrows |-> tasks[r].row]]]

\* one pass of dot: the indexes of the products, then the rows
DotPass(array, lhs_mapping, rhs_mapping, lhs, rhs) ==
    LET indexes == ComputeDotProductsIndexes(lhs_mapping, rhs_mapping,
                        [r \in 1..array.nrows |-> <<>>])
    IN  IF indexes.panic THEN [panic |-> TRUE, array |-> array]
        ELSE ParForEach(array, indexes.rows, lhs, rhs)

\* the sum of the products of the pairs (head, other) for `other` in `rest`
\* that compute_norm keeps
RECURSIVE NormPairs(_, _, _)
NormPairs(values, head, rest) ==
    IF rest = <<>> THEN 0
    ELSE (IF head.new = Head(rest).new /\ head.feature = Head(rest).feature
          THEN InnerProduct(RowOf(values, head.old), RowOf(values, Head(rest).old))
          ELSE 0)
         + NormPairs(values, head, Tail(rest))

\* compute_norm before the final f64::sqrt: entry i holds the square of the
\* norm of row i
ComputeNorm(values, size, mapping) ==
    [i \in 1..size |->
        LET mine == SelectSeq(mapping, LAMBDA entry : entry.new = i - 1)
            Total[k \in 0..Len(mine)] ==
                IF k = 0 THEN 0
                ELSE Total[k - 1] + NormPairs(values, mine[k], mapping)
        IN  Total[Len(mine)]]

\* the owner of a gradient row, falling back to the first output sample when
\* no output sample matches
GradientOwnerOrFirst(output, gradient_sample) ==
    LET owner == Position(output.samples,
                     SubSeq(gradient_sample, 1,
                            Size(Unwrap(output.gradients_samples)) - 2))
    IN  IF owner = None /\ Count(output.samples) > 0 THEN Some(0) ELSE owner

\* the owner of a gradient row: the position in the output samples of the
\* gradient sample without its last two columns
GradientOwner(output, gradient_sample) ==
    Position(output.samples,
             SubSeq(gradient_sample, 1, Size(Unwrap(output.gradients_samples)) - 2))

\* the `if options.normalize` block: the norms every entry is divided by;
\* output[new_lhs] of compute_norm out of bounds panics.
\* The division itself is not carried out on the entries: entry (i, j) of
\* the values stands for its stored number over sqrt(lhs[i]) * sqrt(rhs[j]),
\* entry (i, j) of the gradients for its number over sqrt(grad[i]) * sqrt(rhs[j])
Normalize(self, other, output, lhs_mapping, rhs_mapping) ==
    LET norm_lhs == ComputeNorm(self.values, output.values.nrows, lhs_mapping)
        norm_rhs == ComputeNorm(other.values, output.values.ncols, rhs_mapping)
        out_of_bounds ==
            \/ \E k \in 1..Len(lhs_mapping) : lhs_mapping[k].new >= output.values.nrows
            \/ \E k \in 1..Len(rhs_mapping) : rhs_mapping[k].new >= output.values.ncols
    IN  IF out_of_bounds THEN [panic |-> TRUE, norms |-> None]
        ELSE IF output.gradients = None
        THEN [panic |-> FALSE,
              norms |-> Some([lhs |-> norm_lhs, rhs |-> norm_rhs, grad |-> <<>>])]
        ELSE LET gradients_samples == Unwrap(output.gradients_samples)
                 rows == Iter(gradients_samples)
             IN  IF \/ Size(gradients_samples) # Size(output.samples) + 2
                    \/ gradients_samples.names[Size(gradients_samples)] # "spatial"
                    \/ \E i \in 1..Len(rows) : GradientOwner(output, rows[i]) = None
                 THEN [panic |-> TRUE, norms |-> None]
                 ELSE [panic |-> FALSE,
                       norms |-> Some([lhs |-> norm_lhs, rhs |-> norm_rhs,
                                       grad |-> [i \in 1..Len(rows) |->
                                            norm_lhs[Unwrap(GradientOwner(output, rows[i])) + 1]]])]

\* Result<Descriptor, Error> of dot, and the norms of a normalized output
DotResult(status, output, norms) ==
    [status |-> status, output |-> output, norms |-> norms]

DotFailed(status) == DotResult(status, New, None)

\* dot from `let mut output = Descriptor::new()` on
DotCompute(self, other, options, removed_lhs, removed_rhs, removed_grad) ==
    IF IsSome(removed_grad) /\ PrepareGradientsPanics(Unwrap(removed_grad).samples)
    THEN DotFailed("Panic")
    ELSE
    LET prepared == IF IsSome(removed_grad)
                    THEN PrepareGradients(New, removed_lhs.samples,
                            Unwrap(removed_grad).samples, removed_rhs.samples)
                    ELSE Prepare(New, removed_lhs.samples, removed_rhs.samples)
        lhs_ids  == BuildFeaturesId(<<>>, removed_lhs.mapping, <<>>)
        rhs_ids  == BuildFeaturesId(lhs_ids.features, removed_rhs.mapping, <<>>)
        values   == DotPass(prepared.values, lhs_ids.mapping, rhs_ids.mapping,
                            self.values, other.values)
    IN  IF values.panic THEN DotFailed("Panic")
        ELSE IF IsSome(removed_grad) /\ self.gradients = None THEN DotFailed("Panic")
        ELSE
        LET grad_ids  == IF IsSome(removed_grad)
                         THEN BuildFeaturesId(rhs_ids.features,
                                Unwrap(removed_grad).mapping, <<>>)
                         ELSE [features |-> rhs_ids.features, mapping |-> <<>>]
            gradients == IF IsSome(removed_grad)
                         THEN DotPass(Unwrap(prepared.gradients), grad_ids.mapping,
                                rhs_ids.mapping, Unwrap(self.gradients), other.values)
                         ELSE [panic |-> FALSE, array |-> Zeros(0, 0)]
            output    == [prepared EXCEPT
                            !.values = values.array,
                            !.gradients = IF IsSome(removed_grad)
                                          THEN Some(gradients.array) ELSE None]
            normalized == IF options.normalize
                          THEN Normalize(self, other, output,
                                         lhs_ids.mapping, rhs_ids.mapping)
                          ELSE [panic |-> FALSE, norms |-> None]
        IN  IF gradients.panic \/ normalized.panic THEN DotFailed("Panic")
            ELSE DotResult("Ok", output, normalized.norms)

\* the loop `for variable in options.reduce_across` returns an Err
ReduceAcrossMissing(self, other, reduce_across) ==
    \E k \in 1..Len(reduce_across) :
        \/ reduce_across[k] \notin Range(self.samples.names)
        \/ reduce_across[k] \notin Range(other.samples.names)

\* Descriptor::dot(&self, other, options)
Dot(self, other, options) ==
    IF self.features # other.features THEN DotFailed("InvalidParameter")
    ELSE IF ReduceAcrossMissing(self, other, options.reduce_across)
    THEN DotFailed("InvalidParameter")
    ELSE
    LET removed_rhs == RemoveFromSamples(other.samples, options.reduce_across)
        removed_lhs == RemoveFromSamples(self.samples, options.reduce_across)
    IN  IF removed_rhs.status # "Ok" THEN DotFailed(removed_rhs.status)
        ELSE IF removed_lhs.status # "Ok" THEN DotFailed(removed_lhs.status)
        ELSE IF ~options.gradients
        THEN DotCompute(self, other, options, removed_lhs, removed_rhs, None)
        ELSE IF self.gradients_samples = None THEN DotFailed("InvalidParameter")
        ELSE LET removed_grad == RemoveFromSamples(Unwrap(self.gradients_samples),
                                                   options.reduce_across)
             IN  IF removed_grad.status # "Ok" THEN DotFailed(removed_grad.status)
                 ELSE DotCompute(self, other, options, removed_lhs, removed_rhs,
                                 Some(removed_grad))

\* DotOptions
DotOptions(reduce_across, normalize, gradients) ==
    [reduce_across |-> reduce_across, normalize |-> normalize,
     gradients |-> gradients]

---------------------------------------------------------------------------
(* Inputs of the operations *)

\* the column names of the samples handed to prepare
SampleNames == <<"structure", "center", "species">>

\* the values a column takes: one center per structure, and the gradient
\* columns hold a single atom and a single spatial component
ColumnValues(name) ==
    IF name \in {"center", "atom", "spatial", "neighbor"} THEN {0} ELSE IndexValues

\* the columns (1-based) of `names` whose name is not in `removed`
KeptColumnsOf(names, removed) ==
    SelectSeq([c \in 1..Len(names) |-> c], LAMBDA c : names[c] \notin Range(removed))

\* all rows over the columns `names`
RowsOver(names) ==
    {row \in [1..Len(names) -> IndexValues] :
        \A i \in 1..Len(names) : row[i] \in ColumnValues(names[i])}

\* all tables over `names` with at most `n` rows, duplicates included
TablesOver(names, n) ==
    {IndexesOf(names, rows) : rows \in SeqsUpTo(RowsOver(names), n)}

SampleTables == TablesOver(SampleNames, MaxRows)

\* feature tables: no column at all, one column and no row, one column and
\* two rows
FeatureTables ==
    {IndexesOf(<<>>, <<>>), IndexesOf(<<"n">>, <<>>),
     IndexesOf(<<"n">>, <<<<0>>, <<1>>>>)}

\* the column names of gradient samples: those of the samples, with or
\* without the species, then the atom and the spatial component
GradientNames ==
    {SampleNames \o <<"atom", "spatial">>,
     SelectSeq(SampleNames, LAMBDA name : name # "species") \o <<"atom", "spatial">>}

GradientTables == UNION {TablesOver(names, MaxGradRows) : names \in GradientNames}

\* what the calculators write: entry (i, j) is base + i * ncols + j
Ramp(array, base) ==
    [array EXCEPT !.data =
        [i \in 1..array.nrows |-> [j \in 1..array.ncols |->
            base + (i - 1) * array.ncols + (j - 1)]]]

\* a descriptor after the calculator wrote its values (and gradients)
Filled(descriptor, base) ==
    [descriptor EXCEPT
        !.values = Ramp(@, base),
        !.gradients = IF IsSome(@) THEN Some(Ramp(Unwrap(@), base + 10)) ELSE @]

\* the lists of variables handed to densify
VariableLists ==
    {<<>>, <<"species">>, <<"structure">>,
     <<"species", "structure">>, <<"species", "species">>,
     <<"structure", "center", "species">>, <<"atom">>, <<"species", "missing">>}

\* the `requested` arrays with `ncols` columns and at most `n` rows
RequestedArrays(ncols, n) ==
    {[nrows |-> Len(rows), ncols |-> ncols, data |-> rows] :
        rows \in SeqsUpTo([1..ncols -> IndexValues], n)}

\* an array of one row of zeros, one column wider than `variables`
TooWide(variables) ==
    [nrows |-> 1, ncols |-> Len(variables) + 1,
     data |-> <<[i \in 1..(Len(variables) + 1) |-> 0]>>]

\* None, every array of the right width, and one array one column too wide
Requested(variables) ==
    {None} \cup {Some(r) : r \in RequestedArrays(Len(variables), MaxRequested)}
           \cup {Some(TooWide(variables))}

\* None, the arrays of the right width with no row and with one row of
\* zeros, and one array one column too wide
FewRequested(variables) ==
    {None,
     Some([nrows |-> 0, ncols |-> Len(variables), data |-> <<>>]),
     Some([nrows |-> 1, ncols |-> Len(variables),
           data |-> <<[i \in 1..Len(variables) |-> 0]>>]),
     Some(TooWide(variables))}

\* the lists of variables densify is given together with every `requested`
RequestedVariableLists == {<<"species">>, <<"species", "structure">>}

---------------------------------------------------------------------------
(* The state machine: one descriptor, shaped, filled and densified *)

\* `densified` counts the densify calls since the descriptor was shaped
Call(op, variables, requested, before, status, warnings, densified) ==
    [op |-> op, variables |-> variables, requested |-> requested,
     before |-> before, status |-> status, warnings |-> warnings,
     densified |-> densified,
     other |-> New, gradients |-> FALSE, normalize |-> FALSE, norms |-> None,
     given |-> <<>>]

Init ==
    /\ d = New
    /\ call = Call("new", <<>>, None, New, "Ok", {}, 0)
    /\ kernel = New

DoPrepare ==
    /\ call.op = "new"
    /\ \E samples \in SampleTables, features \in FeatureTables :
        /\ d' = Prepare(d, samples, features)
        /\ call' = Call("prepare", <<>>, None, New, "Ok", {}, 0)
        /\ UNCHANGED kernel

DoPrepareGradients ==
    /\ call.op = "new"
    /\ \E samples \in SampleTables, features \in FeatureTables,
          gradients \in GradientTables :
        /\ ~PrepareGradientsPanics(gradients)
        /\ d' = PrepareGradients(d, samples, gradients, features)
        /\ call' = Call("prepare_gradients", <<>>, None, New, "Ok", {}, 0)
        /\ UNCHANGED kernel

\* the calculator fills values (and gradients) in place
DoFill ==
    /\ call.op \in {"prepare", "prepare_gradients"}
    /\ d' = Filled(d, 1)
    /\ call' = Call("fill", <<>>, None, New, "Ok", {}, 0)
    /\ UNCHANGED kernel

DensifyWith(variables, requested) ==
    LET result == Densify(d, variables, requested)
    IN  /\ d' = result.descriptor
        /\ call' = Call("densify", variables, requested, d,
                        result.status, result.warnings, call.densified + 1)
        /\ UNCHANGED kernel

DoDensify ==
    /\ call.densified = 0
    /\ \E variables \in VariableLists :
        \E requested \in FewRequested(variables) : DensifyWith(variables, requested)

DoDensifyRequested ==
    /\ call.densified = 0
    /\ \E variables \in RequestedVariableLists :
        \E requested \in Requested(variables) : DensifyWith(variables, requested)

\* the life of a descriptor, gradients included
Next == DoPrepare \/ DoPrepareGradients \/ DoFill \/ DoDensify

Spec == Init /\ [][Next]_vars

\* one densify of a descriptor without gradients, `requested` arrays of
\* every shape
NextDensify == DoPrepare \/ DoFill \/ DoDensify \/ DoDensifyRequested

SpecDensify == Init /\ [][NextDensify]_vars

\* gradient samples of one row more than GradientTables holds
ManyGradientTables ==
    UNION {TablesOver(names, MaxGradRows + 1) : names \in GradientNames}

\* prepare_gradients with the two feature rows and any of ManyGradientTables
DoPrepareManyGradients ==
    /\ call.op = "new"
    /\ \E samples \in SampleTables, gradients \in ManyGradientTables :
        /\ ~PrepareGradientsPanics(gradients)
        /\ d' = PrepareGradients(d, samples, gradients,
                                 IndexesOf(<<"n">>, <<<<0>>, <<1>>>>))
        /\ call' = Call("prepare_gradients", <<>>, None, New, "Ok", {}, 0)
        /\ UNCHANGED kernel

\* densify once the calculator has written, without `requested` or with the
\* one key of zeros requested
DoDensifyFilled ==
    /\ call.op = "fill"
    /\ \E variables \in VariableLists :
        \E requested \in {None,
                          Some([nrows |-> 1, ncols |-> Len(variables),
                                data |-> <<[i \in 1..Len(variables) |-> 0]>>])} :
            DensifyWith(variables, requested)

NextGradients == DoPrepareManyGradients \/ DoFill \/ DoDensifyFilled

\* one densify of a descriptor holding values and gradients
SpecGradients == Init /\ [][NextGradients]_vars

---------------------------------------------------------------------------
(* The kernel: dot of a filled descriptor with another one *)

\* the sample a gradient sample belongs to: the row without the atom and
\* the spatial component, with species 0 when the gradient samples have no
\* species
OwnerOf(names, row) ==
    IF Len(names) = Len(SampleNames) + 2 THEN SubSeq(row, 1, Len(SampleNames))
    ELSE SubSeq(row, 1, Len(names) - 2) \o <<0>>

\* the samples that own the rows of a gradient samples table, each once
RECURSIVE Owners(_, _)
Owners(names, rows) ==
    IF rows = <<>> THEN <<>>
    ELSE LET rest == Owners(names, SubSeq(rows, 1, Len(rows) - 1))
             last == OwnerOf(names, rows[Len(rows)])
         IN  IF last \in Range(rest) THEN rest ELSE Append(rest, last)

\* the left hand sides: every filled descriptor without gradients, and for
\* every gradient samples table the filled descriptor of the samples that
\* own its rows, and the one without any sample
LhsDescriptors ==
    {Filled(Prepare(New, samples, features), 1) :
        samples \in SampleTables, features \in FeatureTables}
    \cup UNION {
            {Filled(PrepareGradients(New, IndexesOf(SampleNames, samples), gradients,
                        IndexesOf(<<"n">>, <<<<0>>, <<1>>>>)), 1) :
                samples \in {Owners(gradients.names, Iter(gradients)), <<>>}} :
            gradients \in GradientTables}

\* the right hand sides with the features of the left hand side
Others(features) ==
    {Filled(Prepare(New, samples, features), 5) :
        samples \in TablesOver(SampleNames, MaxOtherRows)}

\* right hand sides of one sample: with other features, without the species
\* column, with one more column
OddOthers(features) ==
    {Filled(Prepare(New, IndexesOf(names, <<[i \in 1..Len(names) |-> 0]>>), f), 5) :
        names \in {SampleNames, <<"structure", "center">>,
                   SampleNames \o <<"neighbor">>},
        f \in {features, IndexesOf(<<"m">>, <<<<0>>>>)}}

ReduceLists ==
    {<<>>, <<"species">>, <<"species", "structure">>,
     <<"structure", "center", "species">>}

OddReduceLists ==
    {<<"species">>, <<"missing">>, <<"neighbor">>,
     <<"structure", "structure">>, <<"species", "species">>}

InitDot ==
    /\ d \in LhsDescriptors
    /\ call = Call("fill", <<>>, None, New, "Ok", {}, 0)
    /\ kernel = New

\* rascal_descriptor_dot that stores whatever dot built, also when it failed
DotWithOutputAlways(other, options) ==
    LET result == Dot(d, other, options)
    IN  /\ d' = d
        /\ kernel' = result.output
        /\ call' = [Call("dot", options.reduce_across, None, New,
                         result.status, {}, call.densified)
                    EXCEPT !.other = other,
                           !.gradients = options.gradients,
                           !.normalize = options.normalize,
                           !.norms = result.norms]

\* rascal_descriptor_dot: `(*output).0 = (*lhs).dot(&*rhs, options)?`
DotWith(other, options) ==
    LET result == Dot(d, other, options)
    IN  /\ d' = d
        /\ kernel' = IF result.status = "Ok" THEN result.output ELSE kernel
        /\ call' = [Call("dot", options.reduce_across, None, New,
                         result.status, {}, call.densified)
                    EXCEPT !.other = other,
                           !.gradients = options.gradients,
                           !.normalize = options.normalize,
                           !.norms = result.norms]

\* values only, with the descriptor itself or a descriptor of the same features
DoDot ==
    /\ call.op = "fill"
    /\ \E other \in Others(d.features) \cup {d}, reduce_across \in ReduceLists,
          normalize \in BOOLEAN :
        DotWith(other, DotOptions(reduce_across, normalize, FALSE))

\* values and gradients
DoDotGradients ==
    /\ call.op = "fill"
    /\ \E other \in Others(d.features), reduce_across \in {<<>>, <<"species">>},
          normalize \in BOOLEAN :
        DotWith(other, DotOptions(reduce_across, normalize, TRUE))

\* the calls dot may refuse
DoDotOdd ==
    /\ call.op = "fill"
    /\ \E other \in OddOthers(d.features), reduce_across \in OddReduceLists,
          gradients \in BOOLEAN :
        DotWith(other, DotOptions(reduce_across, FALSE, gradients))

NextDot == DoDot \/ DoDotGradients \/ DoDotOdd

SpecDot == InitDot /\ [][NextDot]_vars

\* what the `output` handed to rascal_descriptor_dot may hold: nothing yet,
\* or an earlier result
PriorOutputs ==
    {New,
     Filled(Prepare(New, IndexesOf(<<"structure", "center">>, <<<<0, 0>>>>),
                    IndexesOf(<<"structure", "center">>, <<<<0, 0>>, <<1, 0>>>>)), 7)}

InitOutput ==
    /\ d \in LhsDescriptors
    /\ call = Call("fill", <<>>, None, New, "Ok", {}, 0)
    /\ kernel \in PriorOutputs

\* rascal_descriptor_dot with an `output` that may already hold a result
SpecOutput == InitOutput /\ [][NextDot]_vars

---------------------------------------------------------------------------
(* A descriptor that is shaped, filled and densified again and again *)

\* samples of a structure and its species, and samples with a column that
\* is called like the last column of the gradient samples
ReuseSampleNames == {<<"structure", "species">>, <<"structure", "spatial">>}

\* all tables of at most MaxRows rows of structure 0
ReuseSamples ==
    UNION {{IndexesOf(names, rows) :
                rows \in SeqsUpTo({row \in RowsOver(names) : row[1] = 0}, MaxRows)} :
            names \in ReuseSampleNames}

\* the gradient samples of a table of samples: none, or one per sample, in
\* the order of the samples, for atom 0 and spatial component 0
ReuseGradients(samples) ==
    LET names == SelectSeq(samples.names, LAMBDA name : name # "spatial")
                    \o <<"atom", "spatial">>
        kept  == KeptColumnsOf(samples.names, <<"spatial">>)
    IN  {IndexesOf(names, <<>>),
         IndexesOf(names,
            [i \in 1..Count(samples) |->
                [j \in 1..Len(kept) |-> Iter(samples)[i][kept[j]]]
                \o <<0, IF "spatial" \in Range(samples.names)
                        THEN Iter(samples)[i][2] ELSE 0>>])}

\* prepare at any time; `before` records what a filled descriptor held,
\* `given` the tables handed in
DoPrepareAgain ==
    /\ call.op \in {"new", "fill", "densify"}
    /\ \E samples \in ReuseSamples, features \in FeatureTables :
        /\ d' = Prepare(d, samples, features)
        /\ call' = [Call("prepare", <<>>, None,
                         IF call.op = "fill" THEN d ELSE New, "Ok", {}, 0)
                    EXCEPT !.given = <<samples, features>>]
        /\ UNCHANGED kernel

\* prepare_gradients at any time
DoPrepareGradientsAgain ==
    /\ call.op \in {"new", "fill", "densify"}
    /\ \E samples \in ReuseSamples, features \in FeatureTables :
        \E gradients \in ReuseGradients(samples) :
            /\ ~PrepareGradientsPanics(gradients)
            /\ d' = PrepareGradients(d, samples, gradients, features)
            /\ call' = [Call("prepare_gradients", <<>>, None,
                             IF call.op = "fill" THEN d ELSE New, "Ok", {}, 0)
                        EXCEPT !.given = <<samples, features, gradients>>]
            /\ UNCHANGED kernel

\* densify, up to MaxDensify times after the descriptor was shaped
DoDensifyAgain ==
    /\ call.op \in {"prepare", "prepare_gradients", "fill", "densify"}
    /\ call.densified < MaxDensify
    /\ \E variables \in {<<"species">>, <<"structure">>, <<"spatial">>} :
        \E requested \in {None,
                          Some([nrows |-> 1, ncols |-> 1, data |-> <<<<0>>>>])} :
            DensifyWith(variables, requested)

\* dot of the descriptor with itself or another one of its features
DoDotAgain ==
    /\ call.op \in {"fill", "densify"}
    /\ \E other \in {d, Filled(Prepare(New, d.samples, d.features), 5)},
          reduce_across \in {<<>>, <<"species">>, <<"spatial">>},
          gradients \in BOOLEAN :
        DotWith(other, DotOptions(reduce_across, FALSE, gradients))

NextReuse ==
    DoPrepareAgain \/ DoPrepareGradientsAgain \/ DoFill \/ DoDensifyAgain
        \/ DoDotAgain

SpecReuse == Init /\ [][NextReuse]_vars

---------------------------------------------------------------------------
(* The two par_for_each of dot, task by task *)

\* the (old_lhs, old_rhs, new_rhs) of the statements `row[new_rhs] += ..`
\* that the task of one row executes, in the order of its two loops
RECURSIVE Updates(_)
Updates(row_indexes) ==
    IF row_indexes = <<>> THEN <<>>
    ELSE LET index == Head(row_indexes)
         IN  [k \in 1..Len(index.rhs_indexes) |->
                 [old_lhs |-> index.old_lhs,
                  old_rhs |-> index.rhs_indexes[k].old_rhs,
                  new_rhs |-> index.rhs_indexes[k].new_rhs]]
             \o Updates(Tail(row_indexes))

\* the output of dot after `output.prepare(..)` / `output.prepare_gradients(..)`
Prepared(self, other, options) ==
    LET removed_rhs == RemoveFromSamples(other.samples, options.reduce_across)
        removed_lhs == RemoveFromSamples(self.samples, options.reduce_across)
    IN  IF options.gradients
        THEN PrepareGradients(New, removed_lhs.samples,
                RemoveFromSamples(Unwrap(self.gradients_samples),
                                  options.reduce_across).samples,
                removed_rhs.samples)
        ELSE Prepare(New, removed_lhs.samples, removed_rhs.samples)

\* `indexes` of the value pass (gradients = FALSE) or of the gradient pass:
\* for every output row the updates of its task
PassIndexes(self, other, options, gradients) ==
    LET removed_rhs == RemoveFromSamples(other.samples, options.reduce_across)
        removed_lhs == RemoveFromSamples(self.samples, options.reduce_across)
        lhs_ids == BuildFeaturesId(<<>>, removed_lhs.mapping, <<>>)
        rhs_ids == BuildFeaturesId(lhs_ids.features, removed_rhs.mapping, <<>>)
        grad_ids == BuildFeaturesId(rhs_ids.features,
                        RemoveFromSamples(Unwrap(self.gradients_samples),
                                          options.reduce_across).mapping, <<>>)
        prepared == Prepared(self, other, options)
        nrows == IF gradients THEN Unwrap(prepared.gradients).nrows
                 ELSE prepared.values.nrows
        rows == ComputeDotProductsIndexes(
                    IF gradients THEN grad_ids.mapping ELSE lhs_ids.mapping,
                    rhs_ids.mapping, [r \in 1..nrows |-> <<>>]).rows
    IN  [r \in 1..nrows |-> Updates(rows[r])]

\* every task writes the first row of the output
TaskRowShared(task) == 0

\* `Zip::from(output.values.rows_mut()).and(&indexes)`: the task of
\* indexes[task] is handed row `task` of the output (0-based)
TaskRow(task) == task

\* the tasks of a pass at their start: nothing executed, nothing loaded
StartPass(state, indexes, gradients) ==
    [state EXCEPT !.gradients = gradients,
                  !.indexes = indexes,
                  !.pc = [r \in 1..Len(indexes) |-> 1],
                  !.loaded = [r \in 1..Len(indexes) |-> None]]

\* the left hand sides of SpecDot and those of two gradient samples
ParallelLhs ==
    LhsDescriptors
    \cup {Filled(PrepareGradients(New,
                    IndexesOf(SampleNames, Owners(gradients.names, Iter(gradients))),
                    gradients, IndexesOf(<<"n">>, <<<<0>>, <<1>>>>)), 1) :
            gradients \in ManyGradientTables}

InitParallel ==
    /\ d \in ParallelLhs
    /\ call = Call("fill", <<>>, None, New, "Ok", {}, 0)
    /\ kernel = New

\* dot up to the first par_for_each, for the calls that neither return an
\* error nor panic; the indexes of the gradient pass depend on the arguments
\* only and are kept for the second par_for_each
EnterDot ==
    /\ call.op = "fill"
    /\ \E other \in Others(d.features) \cup {d},
          reduce_across \in {<<>>, <<"species">>}, gradients \in BOOLEAN :
        LET options == DotOptions(reduce_across, FALSE, gradients)
        IN  /\ Dot(d, other, options).status = "Ok"
            /\ kernel' = Prepared(d, other, options)
            /\ call' = StartPass(
                    [op |-> "par_for_each", other |-> other, options |-> options,
                     gradients |-> FALSE, indexes |-> <<>>, pc |-> <<>>,
                     loaded |-> <<>>, writes |-> {}, overlapped |-> FALSE,
                     gradient_indexes |->
                        IF gradients THEN PassIndexes(d, other, options, TRUE)
                        ELSE <<>>],
                    PassIndexes(d, other, options, FALSE), FALSE)
            /\ d' = d

\* the matrix the running pass writes
PassArray == IF call.gradients THEN Unwrap(kernel.gradients) ELSE kernel.values

\* `row[new_rhs] += ..`, first half: the task reads the entry
TaskLoad(task) ==
    /\ call.op = "par_for_each"
    /\ call.pc[task + 1] <= Len(call.indexes[task + 1])
    /\ call.loaded[task + 1] = None
    /\ LET update == call.indexes[task + 1][call.pc[task + 1]]
       IN  call' = [call EXCEPT
                !.loaded[task + 1] =
                    Some(PassArray.data[TaskRow(task) + 1][update.new_rhs + 1]),
                !.overlapped = @ \/ \E r \in 1..Len(call.loaded) : call.loaded[r] # None]
    /\ UNCHANGED <<d, kernel>>

\* `row[new_rhs] += ..`, second half: the task writes the entry read plus
\* the product of the two rows
TaskStore(task) ==
    /\ call.op = "par_for_each"
    /\ call.loaded[task + 1] # None
    /\ LET update  == call.indexes[task + 1][call.pc[task + 1]]
           lhs     == IF call.gradients THEN Unwrap(d.gradients) ELSE d.values
           value   == Unwrap(call.loaded[task + 1])
                      + InnerProduct(RowOf(lhs, update.old_lhs),
                                     RowOf(call.other.values, update.old_rhs))
           written == [PassArray EXCEPT
                          !.data[TaskRow(task) + 1][update.new_rhs + 1] = value]
       IN  /\ kernel' = IF call.gradients
                        THEN [kernel EXCEPT !.gradients = Some(written)]
                        ELSE [kernel EXCEPT !.values = written]
           /\ call' = [call EXCEPT
                !.loaded[task + 1] = None,
                !.pc[task + 1] = @ + 1,
                !.writes = @ \cup {[gradients |-> call.gradients, task |-> task,
                                    row |-> TaskRow(task), col |-> update.new_rhs]}]
    /\ d' = d

DoTask ==
    /\ call.op = "par_for_each"
    /\ \E task \in 0..(Len(call.pc) - 1) : TaskLoad(task) \/ TaskStore(task)

\* all the tasks of the pass have finished
PassDone ==
    \A r \in 1..Len(call.pc) : call.pc[r] > Len(call.indexes[r])

\* par_for_each returns when all its tasks have: the gradient pass starts
JoinValues ==
    /\ call.op = "par_for_each"
    /\ ~call.gradients /\ call.options.gradients
    /\ PassDone
    /\ call' = StartPass(call, call.gradient_indexes, TRUE)
    /\ UNCHANGED <<d, kernel>>

\* the last par_for_each returns, and dot returns the output
JoinLast ==
    /\ call.op = "par_for_each"
    /\ call.gradients = call.options.gradients
    /\ PassDone
    /\ call' = [call EXCEPT !.op = "dot"]
    /\ UNCHANGED <<d, kernel>>

NextParallel == EnterDot \/ DoTask \/ JoinValues \/ JoinLast

SpecParallel == InitParallel /\ [][NextParallel]_vars

---------------------------------------------------------------------------
(* Vocabulary of the claims about densify *)

\* the last operation was densify(variables, requested) and it did the work:
\* it returned Ok(()) and not from the early return
Densified ==
    /\ call.op = "densify"
    /\ call.status = "Ok"
    /\ ~DensifyNoOp(call.before, call.variables)

\* the columns (1-based) of `names` that `variables` does not name
KeptColumns(names, variables) ==
    SelectSeq([c \in 1..Len(names) |-> c],
              LAMBDA c : names[c] \notin Range(variables))

\* the names of `names` that `variables` does not name
KeptNames(names, variables) ==
    LET kept == KeptColumns(names, variables)
    IN  [j \in 1..Len(kept) |-> names[kept[j]]]

\* a sample row without the columns named by `variables`
ReducedSample(names, row, variables) ==
    LET kept == KeptColumns(names, variables)
    IN  [j \in 1..Len(kept) |-> row[kept[j]]]

\* the values a sample row takes in the columns `variables`, in their order
BlockKey(names, row, variables) ==
    [k \in 1..Len(variables) |->
        row[CHOOSE c \in 1..Len(names) : names[c] = variables[k]]]

\* the block keys of all the rows of a table
BlockKeys(table, variables) ==
    {BlockKey(table.names, row, variables) : row \in Range(Iter(table))}

\* the number of keys of `keys` that come before `key`
Rank(keys, key) == Cardinality({other \in keys : LexLess(other, key)})

PairwiseDistinct(rows) ==
    \A i, j \in 1..Len(rows) : rows[i] = rows[j] => i = j

\* the entry of a matrix, row and column 0-based
Entry(array, row, col) == array.data[row + 1][col + 1]

\* the key set of the new feature layout of the last densify
FinalKeys ==
    IF IsSome(call.requested) THEN Range(Unwrap(call.requested).data)
    ELSE BlockKeys(call.before.samples, call.variables)

---------------------------------------------------------------------------
(* C1 *)

\* where old row i (1-based) of the last densify must be found: the row of
\* its reduced sample and the first column of the block of its key
Destination(i) ==
    LET old  == call.before
        row  == Iter(old.samples)[i]
        keys == BlockKeys(old.samples, call.variables)
    IN  [row |-> Position(d.samples,
                    ReducedSample(old.samples.names, row, call.variables)),
         col |-> Count(old.features)
                 * Rank(keys, BlockKey(old.samples.names, row, call.variables))]

\* C1: after a successful densify(variables, None) of a descriptor with at
\* least one feature row and pairwise distinct sample rows, every old row is
\* found, whole, in the row of its reduced sample at the columns of the block
\* of its key, and every other entry of the new values is 0
C1_DensifyRelocatesRows ==
    ( /\ call.op = "densify"
      /\ call.status = "Ok"
      /\ call.requested = None
      /\ Count(call.before.features) >= 1
      /\ PairwiseDistinct(Iter(call.before.samples)) )
    => LET old == call.before
           n   == Count(old.samples)
           F   == Count(old.features)
       IN  /\ \A i \in 1..n :
                /\ IsSome(Destination(i).row)
                /\ \A j \in 0..(F - 1) :
                     Entry(d.values, Unwrap(Destination(i).row), Destination(i).col + j)
                        = Entry(old.values, i - 1, j)
           /\ \A r \in 0..(d.values.nrows - 1), c \in 0..(d.values.ncols - 1) :
                (~\E i \in 1..n :
                    /\ Destination(i).row = Some(r)
                    /\ c >= Destination(i).col
                    /\ c < Destination(i).col + F)
                => Entry(d.values, r, c) = 0

\* two rows of one structure were densified along the species; the row of
\* species 1 came first and is found in the second block
C1_Witness ==
    /\ Densified
    /\ call.variables = <<"species">>
    /\ call.requested = None
    /\ Iter(call.before.samples) = <<<<0, 0, 1>>, <<0, 0, 0>>>>
    /\ call.before.values.data = <<<<1, 2>>, <<3, 4>>>>
    /\ d.values.data = <<<<3, 4, 1, 2>>>>

---------------------------------------------------------------------------
(* C2 *)

\* the new features are the old feature names behind `variables`, and the
\* rows are key ++ feature row, for the keys of FinalKeys in ascending order
\* and, within a key, the old feature rows in their order
FeaturesAreBlocks ==
    LET old  == call.before
        F    == Count(old.features)
        keys == FinalKeys
    IN  /\ d.features.names = call.variables \o old.features.names
        /\ Count(d.features) = Cardinality(keys) * F
        /\ \A key \in keys : \A f \in 0..(F - 1) :
              Value(d.features, Rank(keys, key) * F + f)
                 = key \o Value(old.features, f)

\* C2 as stated: after every densify that returns Ok(())
C2_Original ==
    (call.op = "densify" /\ call.status = "Ok") => FeaturesAreBlocks

\* C2, amended: after a successful densify with a non-empty `variables` on a
\* descriptor with at least one feature column (not the early return), the
\* new features are `variables` ++ old names, one block per distinct key of
\* the finalized key set in ascending order, the old feature rows within
\* each block in their order
C2_FeaturesAreSortedBlocks == Densified => FeaturesAreBlocks

\* `requested` was given unsorted and names a key, (0, 1), that no sample
\* carries; the blocks come out sorted
C2_Witness ==
    /\ Densified
    /\ call.variables = <<"species", "structure">>
    /\ call.requested = Some([nrows |-> 2, ncols |-> 2, data |-> <<<<1, 0>>, <<0, 1>>>>])
    /\ Iter(call.before.samples) = <<<<0, 0, 1>>>>
    /\ Iter(d.features) = <<<<0, 1, 0>>, <<0, 1, 1>>, <<1, 0, 0>>, <<1, 0, 1>>>>

---------------------------------------------------------------------------
(* C3 *)

\* the new samples hold the old names without `variables` and the distinct
\* reduced rows in the order of their first occurrence, and the mapping of
\* remove_from_samples sends every old row to the position of its reduced row
SamplesAreFirstSeen ==
    LET old     == call.before
        rows    == Iter(old.samples)
        reduced == [i \in 1..Len(rows) |->
                      ReducedSample(old.samples.names, rows[i], call.variables)]
        firsts  == SelectSeq([i \in 1..Len(rows) |-> i],
                      LAMBDA i : \A j \in 1..(i - 1) : reduced[j] # reduced[i])
        mapping == RemoveFromSamples(old.samples, call.variables).mapping
    IN  /\ d.samples.names = KeptNames(old.samples.names, call.variables)
        /\ Iter(d.samples) = [k \in 1..Len(firsts) |-> reduced[firsts[k]]]
        /\ Len(mapping) = Len(rows)
        /\ \A i \in 1..Len(rows) :
              /\ mapping[i].old_sample_i = i - 1
              /\ Some(mapping[i].new_sample_i) = Position(d.samples, reduced[i])

\* C3: after a successful densify the new samples have the old names minus
\* `variables` and hold each distinct reduced sample row once, in first-seen
\* order, and the new row index of an old row is the position of its reduced
\* sample.  Stated here for the calls that get past the early return (a
\* non-empty `variables`, at least one feature column)
C3_SamplesAreFirstSeen == Densified => SamplesAreFirstSeen

---------------------------------------------------------------------------
(* C7 *)

\* C7: when densify returns InvalidParameter, the receiver is what it was
C7_ErrorLeavesReceiver ==
    (call.op = "densify" /\ call.status = "InvalidParameter") => d = call.before

\* the variable is a column of the samples and not of the gradient samples,
\* and the receiver holds values and gradients
C7_Witness ==
    /\ call.op = "densify"
    /\ call.status = "InvalidParameter"
    /\ call.variables = <<"species">>
    /\ call.requested = None
    /\ IsSome(call.before.gradients)
    /\ "species" \notin Range(Unwrap(call.before.gradients_samples).names)
    /\ Unwrap(call.before.gradients).data = <<<<11, 12>>>>
    /\ call.before.values.data = <<<<1, 2>>>>

---------------------------------------------------------------------------
(* C8 *)

\* some name of `variables` is no column of the samples
UnknownVariable ==
    \E k \in 1..Len(call.variables) :
        call.variables[k] \notin Range(call.before.samples.names)

\* `requested` is given and its width is not the number of variables
WrongWidth ==
    /\ call.requested # None
    /\ Unwrap(call.requested).ncols # Len(call.variables)

\* C8 as stated: an unknown variable or a `requested` of the wrong width
\* makes densify fail with InvalidParameter
C8_Original ==
    (call.op = "densify" /\ (UnknownVariable \/ WrongWidth))
    => call.status = "InvalidParameter"

\* C8, amended: unless `variables` is empty or the descriptor has no feature
\* column (then densify returns Ok(()) at once), an unknown variable or a
\* `requested` of the wrong width makes densify fail with InvalidParameter
C8_InvalidParameter ==
    /\ (call.op = "densify" /\ ~DensifyNoOp(call.before, call.variables)
            /\ (UnknownVariable \/ WrongWidth))
       => call.status = "InvalidParameter"
    /\ (call.op = "densify" /\ DensifyNoOp(call.before, call.variables))
       => call.status = "Ok"

\* a `requested` one column too wide for known variables was refused
C8_Witness ==
    /\ call.op = "densify"
    /\ call.status = "InvalidParameter"
    /\ WrongWidth
    /\ ~UnknownVariable
    /\ call.variables = <<"species">>
    /\ Count(call.before.samples) = 2

---------------------------------------------------------------------------
(* C10 *)

\* C10 as stated: densify with no variable, or on a descriptor with
\* features.count() = 0, returns Ok(()) and changes nothing
C10_Claim ==
    (call.op = "densify"
        /\ (call.variables = <<>> \/ Count(call.before.features) = 0))
    => (call.status = "Ok" /\ d = call.before)

---------------------------------------------------------------------------
(* Vocabulary of the claims about dot *)

\* the last operation was a dot that returned a descriptor
DotOk == call.op = "dot" /\ call.status = "Ok"

\* the sum of the values of a function over its finite domain
RECURSIVE SumFn(_)
SumFn(f) ==
    IF DOMAIN f = {} THEN 0
    ELSE LET x == CHOOSE x \in DOMAIN f : TRUE
         IN  f[x] + SumFn([y \in DOMAIN f \ {x} |-> f[y]])

\* the inner product of two rows
RowProduct(a, b) == SumFn([k \in 1..Len(a) |-> a[k] * b[k]])

\* the plain matrix product L * transpose(R)
MatMulT(L, R) ==
    [nrows |-> L.nrows, ncols |-> R.nrows,
     data  |-> [i \in 1..L.nrows |-> [j \in 1..R.nrows |->
                    RowProduct(L.data[i], R.data[j])]]]

\* every name of reduce_across is a column of both samples
ReduceAcrossKnown ==
    \A k \in 1..Len(call.variables) :
        /\ call.variables[k] \in Range(d.samples.names)
        /\ call.variables[k] \in Range(call.other.samples.names)

\* the f64 at (r, c) of the values of the kernel is the number x: the stored
\* number, over the norms when the output was normalized (a zero norm gives
\* NaN or an infinity, which is no number)
OutputIs(r, c, x) ==
    IF call.norms = None THEN Entry(kernel.values, r, c) = x
    ELSE LET norms == Unwrap(call.norms)
             den   == norms.lhs[r + 1] * norms.rhs[c + 1]
             num   == Entry(kernel.values, r, c)
         IN  /\ den > 0
             /\ num * num = x * x * den
             /\ (num >= 0) = (x >= 0)

---------------------------------------------------------------------------
(* C4 *)

\* the `requested` array of the keys of both sides
CommonKeys ==
    LET keys == BTreeIter(BlockKeys(d.samples, call.variables)
                          \cup BlockKeys(call.other.samples, call.variables))
    IN  Some([nrows |-> Len(keys), ncols |-> Len(call.variables), data |-> keys])

\* dot is densify on both sides, then the matrix product
DotIsDensifyThenProduct ==
    LET L == Densify(d, call.variables, CommonKeys)
        R == Densify(call.other, call.variables, CommonKeys)
    IN  /\ call.status = "Ok"
        /\ L.status = "Ok"
        /\ R.status = "Ok"
        /\ kernel.samples = L.descriptor.samples
        /\ kernel.features = R.descriptor.samples
        /\ kernel.values = MatMulT(L.descriptor.values, R.descriptor.values)

\* C4: for lhs and rhs of equal features, reduce_across naming columns of
\* both samples, without gradients and normalization, the values of dot are
\* L * transpose(R) for L and R the values of the two sides densified along
\* reduce_across over the keys of both, the samples are the densified lhs
\* samples, the features the densified rhs samples.  Stated here for the
\* calls that also keep clear of an empty reduced sample, of a repeated name,
\* of a descriptor without feature rows and of gradient data
C4_DotIsDensifyThenProduct ==
    ( /\ call.op = "dot"
      /\ ~call.gradients /\ ~call.normalize
      /\ d.features = call.other.features
      /\ ReduceAcrossKnown
      /\ Count(d.features) >= 1
      /\ PairwiseDistinct(call.variables)
      /\ Len(call.variables) < Size(d.samples)
      /\ d.gradients = None )
    => DotIsDensifyThenProduct


---------------------------------------------------------------------------
(* C5 *)

\* the pairs (a, b) of an old lhs row mapped to output row r and an old rhs
\* row mapped to output column c that carry the same block key (1-based)
MatchingPairs(r, c) ==
    LET lhs == Iter(d.samples)
        rhs == Iter(call.other.samples)
    IN  {p \in (1..Len(lhs)) \X (1..Len(rhs)) :
            /\ Position(kernel.samples,
                    ReducedSample(d.samples.names, lhs[p[1]], call.variables)) = Some(r)
            /\ Position(kernel.features,
                    ReducedSample(call.other.samples.names, rhs[p[2]], call.variables)) = Some(c)
            /\ BlockKey(d.samples.names, lhs[p[1]], call.variables)
                 = BlockKey(call.other.samples.names, rhs[p[2]], call.variables)}

\* the sum of the inner products over the matching pairs
SumOfMatchingPairs(r, c) ==
    SumFn([p \in MatchingPairs(r, c) |->
            RowProduct(d.values.data[p[1]], call.other.values.data[p[2]])])

EntriesAreSums ==
    \A r \in 0..(kernel.values.nrows - 1), c \in 0..(kernel.values.ncols - 1) :
        OutputIs(r, c, SumOfMatchingPairs(r, c))

\* C5 as stated: in every dot that returns a descriptor
C5_Original == DotOk => EntriesAreSums

\* C5, amended: in a dot without normalization, output.values[r, c] is the
\* sum over the pairs of an lhs row mapped to r and an rhs row mapped to c
\* with equal block keys of the inner products of their values; an entry
\* without such a pair is 0
C5_EntriesAreSumsOfMatchingPairs ==
    (DotOk /\ ~call.normalize) => EntriesAreSums

\* the first lhs row carries species 0, the rhs row species 1: its entry is
\* 0 although both rows hold non-zero values
C5_Witness ==
    /\ DotOk
    /\ ~call.normalize /\ ~call.gradients
    /\ call.variables = <<"species">>
    /\ Iter(d.samples) = <<<<0, 0, 0>>, <<1, 0, 1>>>>
    /\ Iter(call.other.samples) = <<<<0, 0, 1>>>>
    /\ d.values.data = <<<<1, 2>>, <<3, 4>>>>
    /\ call.other.values.data = <<<<5, 6>>>>
    /\ kernel.values.data = <<<<0>>, <<39>>>>

---------------------------------------------------------------------------
(* C6 *)

\* C6: dot with an empty reduce_across, without gradients and normalization,
\* of two descriptors of identical features succeeds, and its values are
\* lhs.values * transpose(rhs.values), a row per lhs sample row and a column
\* per rhs sample row
C6_PlainMatrixProduct ==
    ( /\ call.op = "dot"
      /\ call.variables = <<>>
      /\ ~call.gradients /\ ~call.normalize
      /\ d.features = call.other.features )
    => ( /\ call.status = "Ok"
         /\ kernel.values = MatMulT(d.values, call.other.values) )

---------------------------------------------------------------------------
(* C9 *)

\* C9: dot returns InvalidParameter, and the caller gets no descriptor, when
\* the features differ, when a name of reduce_across is no column of the lhs
\* samples or of the rhs samples, and when gradients are requested of an lhs
\* without gradients
C9_DotInvalidParameter ==
    ( /\ call.op = "dot"
      /\ \/ d.features # call.other.features
         \/ ~ReduceAcrossKnown
         \/ (call.gradients /\ d.gradients = None) )
    => (call.status = "InvalidParameter" /\ kernel = New)

---------------------------------------------------------------------------
(* C11 *)

\* the sum of all the entries of a matrix
Mass(array) ==
    SumFn([p \in (1..array.nrows) \X (1..array.ncols) |-> array.data[p[1]][p[2]]])

\* C11: mass conservation: after a successful densify(variables, None) with
\* `variables` a list of distinct sample columns, the sum of the entries of
\* values is what it was before
C11_MassConservation ==
    ( /\ call.op = "densify"
      /\ call.status = "Ok"
      /\ call.requested = None
      /\ PairwiseDistinct(call.variables)
      /\ ~UnknownVariable )
    => Mass(d.values) = Mass(call.before.values)


---------------------------------------------------------------------------
(* C12 *)

\* the keys of the samples of the last densify that `requested` does not hold
UnrequestedKeys ==
    IF IsSome(call.requested)
    THEN BlockKeys(call.before.samples, call.variables)
            \ Range(Unwrap(call.requested).data)
    ELSE {}

\* every entry of `new` is 0 or is taken from a row of `old` whose key is in
\* the new feature layout: the entry at feature f of the block of key k, in
\* new row r, is the entry at f of such an old row of key k whose reduced
\* sample is row r of `new_samples`
OnlyRequestedCopied(new, new_samples, old, old_samples) ==
    LET F    == Count(call.before.features)
        rows == Iter(old_samples)
    IN  \A r \in 0..(new.nrows - 1), c \in 0..(new.ncols - 1) :
            \/ Entry(new, r, c) = 0
            \/ \E i \in 1..Len(rows) :
                 LET key == BlockKey(old_samples.names, rows[i], call.variables)
                 IN  /\ key \in FinalKeys
                     /\ key \notin UnrequestedKeys
                     /\ Position(new_samples,
                          ReducedSample(old_samples.names, rows[i], call.variables))
                            = Some(r)
                     /\ c \div F = Rank(FinalKeys, key)
                     /\ Entry(new, r, c) = Entry(old, i - 1, c % F)

\* what C12 promises for the last densify: success, a warning for every key
\* of the samples that was not requested, the reduced sample of every row
\* among the new samples, and nothing copied from the rows of such keys
UnrequestedExcluded ==
    LET old  == call.before
        rows == Iter(old.samples)
    IN  /\ call.status = "Ok"
        /\ UnrequestedKeys \subseteq call.warnings
        /\ \A i \in 1..Len(rows) :
              BlockKey(old.samples.names, rows[i], call.variables) \in UnrequestedKeys
              => IsSome(Position(d.samples,
                    ReducedSample(old.samples.names, rows[i], call.variables)))
        /\ OnlyRequestedCopied(d.values, d.samples, old.values, old.samples)
        /\ IsSome(old.gradients) =>
              /\ IsSome(d.gradients)
              /\ OnlyRequestedCopied(Unwrap(d.gradients), Unwrap(d.gradients_samples),
                    Unwrap(old.gradients), Unwrap(old.gradients_samples))

\* the gradient samples of the last densify, if any, hold the columns
\* `variables` and the same keys as the samples
GradientKeysAgree ==
    LET old == call.before
    IN  IsSome(old.gradients_samples) =>
            /\ Range(call.variables) \subseteq Range(Unwrap(old.gradients_samples).names)
            /\ BlockKeys(Unwrap(old.gradients_samples), call.variables)
                  = BlockKeys(old.samples, call.variables)

\* C12: when `requested` is given and a key of the samples is not among its
\* rows, densify warns about that key and returns Ok(()), no value and no
\* gradient of a row of that key is copied, and the reduced sample of such a
\* row is a row of the new samples.  Stated for the calls that get to the
\* reduction: distinct variables that are columns of the samples, a
\* `requested` of their width, at least one feature row, and gradient
\* samples, if any, with the keys of the samples
C12_UnrequestedKeyExcluded ==
    ( /\ call.op = "densify"
      /\ call.requested # None
      /\ ~WrongWidth
      /\ ~UnknownVariable
      /\ call.variables # <<>>
      /\ PairwiseDistinct(call.variables)
      /\ Count(call.before.features) >= 1
      /\ GradientKeysAgree
      /\ UnrequestedKeys # {} )
    => UnrequestedExcluded


---------------------------------------------------------------------------
(* C13 *)

\* the requested keys of the last densify that no sample row carries
KeysWithoutData ==
    IF IsSome(call.requested)
    THEN Range(Unwrap(call.requested).data)
            \ BlockKeys(call.before.samples, call.variables)
    ELSE {}

---------------------------------------------------------------------------
(* C14 *)

\* the distinct reduced rows of `table` in the order of their first occurrence
FirstSeenRows(table, variables) ==
    LET rows    == Iter(table)
        reduced == [i \in 1..Len(rows) |->
                      ReducedSample(table.names, rows[i], variables)]
        firsts  == SelectSeq([i \in 1..Len(rows) |-> i],
                      LAMBDA i : \A j \in 1..(i - 1) : reduced[j] # reduced[i])
    IN  [k \in 1..Len(firsts) |-> reduced[firsts[k]]]

\* the old gradient rows (1-based) whose reduced gradient sample is new row r
\* and whose key owns new column c
GradientSources(r, c) ==
    LET old  == call.before
        rows == Iter(Unwrap(old.gradients_samples))
        names == Unwrap(old.gradients_samples).names
    IN  {i \in 1..Len(rows) :
            /\ BlockKey(names, rows[i], call.variables) \in FinalKeys
            /\ Rank(FinalKeys, BlockKey(names, rows[i], call.variables))
                  = c \div Count(old.features)
            /\ Position(Unwrap(d.gradients_samples),
                  ReducedSample(names, rows[i], call.variables)) = Some(r)}

---------------------------------------------------------------------------
(* C15 *)

\* the last densify was given distinct variables that are columns of the
\* samples and of the gradient samples, and the two tables do not hold the
\* same set of keys
KeySetsMismatch ==
    LET old == call.before
    IN  /\ IsSome(old.gradients_samples)
        /\ ~UnknownVariable
        /\ PairwiseDistinct(call.variables)
        /\ Range(call.variables) \subseteq Range(Unwrap(old.gradients_samples).names)
        /\ BlockKeys(Unwrap(old.gradients_samples), call.variables)
              # BlockKeys(old.samples, call.variables)

\* C15: when gradient data is present and the keys of the gradient samples
\* are not the keys of the samples, densify (past the early return and the
\* check of the shape of `requested`) panics, and the descriptor is what it
\* was before the call
C15_KeyMismatchPanics ==
    ( /\ call.op = "densify"
      /\ ~DensifyNoOp(call.before, call.variables)
      /\ ~WrongWidth
      /\ KeySetsMismatch )
    => (call.status = "Panic" /\ d = call.before)

\* the samples hold species 0 and 1, the one gradient sample only species 0;
\* values and gradients were written and are still there after the panic
C15_Witness ==
    /\ call.op = "densify"
    /\ call.status = "Panic"
    /\ call.variables = <<"species">>
    /\ call.requested = None
    /\ Iter(call.before.samples) = <<<<0, 0, 0>>, <<0, 0, 1>>>>
    /\ IsSome(call.before.gradients_samples)
    /\ Iter(Unwrap(call.before.gradients_samples)) = <<<<0, 0, 0, 0, 0>>>>
    /\ d.values.data = <<<<1, 2>>, <<3, 4>>>>
    /\ d.gradients = Some([nrows |-> 1, ncols |-> 2, data |-> <<<<11, 12>>>>])
    /\ d = call.before


---------------------------------------------------------------------------
(* C16 *)

\* C16: in both passes of dot every task writes only entries of the output
\* row it was handed, no entry is written by two tasks, and once the tasks
\* have run, in whatever order their reads and writes were interleaved, the
\* output is the one of the tasks run one after the other
C16_RowsAreWriteDisjoint ==
    (call.op \in {"par_for_each", "dot"})
    => /\ \A w \in call.writes : w.row = w.task
       /\ \A v, w \in call.writes :
             (v.gradients = w.gradients /\ v.row = w.row /\ v.col = w.col)
             => v.task = w.task
       /\ call.op = "dot" => kernel = Dot(d, call.other, call.options).output

\* two tasks of the value pass and two of the gradient pass have written,
\* a task read its entry while another one was between its read and its write
C16_Witness ==
    /\ call.op = "dot"
    /\ call.overlapped
    /\ \E v, w \in call.writes : ~v.gradients /\ ~w.gradients /\ v.task # w.task
    /\ \E v, w \in call.writes : v.gradients /\ w.gradients /\ v.task # w.task
    /\ \A r \in 1..kernel.values.nrows : kernel.values.data[r][1] > 0
    /\ kernel = Dot(d, call.other, call.options).output


---------------------------------------------------------------------------
(* C17 *)

\* C17: a call of dot, whether it returns a descriptor or fails, leaves the
\* left hand side as it was; through rascal_descriptor_dot the `output`
\* becomes the result when dot succeeds and stays what it was when dot fails
C17_DotLeavesInputs ==
    [][call'.op = "dot" =>
        /\ d' = d
        /\ IF call'.status = "Ok"
           THEN kernel' = Dot(d, call'.other,
                              DotOptions(call'.variables, call'.normalize,
                                         call'.gradients)).output
           ELSE kernel' = kernel]_vars

\* dot refused a right hand side with other features; the left hand side
\* holds its values and `output` still holds the earlier result
C17_Witness ==
    /\ call.op = "dot"
    /\ call.status = "InvalidParameter"
    /\ call.other.features # d.features
    /\ d.values.data = <<<<1, 2>>, <<3, 4>>>>
    /\ kernel.values.data = <<<<7, 8>>>>
    /\ kernel # New


---------------------------------------------------------------------------
(* C18 *)

\* gradients and gradient samples are there together, and then the last
\* column of the gradient samples is called "spatial"
GradientsAreSpatial(descriptor) ==
    /\ IsSome(descriptor.gradients) <=> IsSome(descriptor.gradients_samples)
    /\ IsSome(descriptor.gradients_samples) =>
          LET names == Unwrap(descriptor.gradients_samples).names
          IN  Len(names) >= 1 /\ names[Len(names)] = "spatial"

\* C18: whatever prepare, prepare_gradients and densify calls were made on
\* a descriptor, and for the descriptor dot returned: gradients are present
\* if and only if gradient samples are, and the last column of the gradient
\* samples is "spatial"
C18_GradientsAreSpatial ==
    GradientsAreSpatial(d) /\ GradientsAreSpatial(kernel)


---------------------------------------------------------------------------
(* C19 *)

\* the matrix has `nrows` rows of `ncols` entries
HasShape(array, nrows, ncols) ==
    /\ array.nrows = nrows
    /\ array.ncols = ncols
    /\ Len(array.data) = nrows
    /\ \A i \in 1..nrows : Len(array.data[i]) = ncols

\* values are samples.count() x features.count(), and gradients, if any,
\* gradients_samples.count() x features.count()
ShapesAgree(descriptor) ==
    /\ HasShape(descriptor.values, Count(descriptor.samples), Count(descriptor.features))
    /\ IsSome(descriptor.gradients) =>
          /\ IsSome(descriptor.gradients_samples)
          /\ HasShape(Unwrap(descriptor.gradients),
                      Count(Unwrap(descriptor.gradients_samples)),
                      Count(descriptor.features))

\* C19: whatever prepare, prepare_gradients and densify calls were made on a
\* descriptor, and for the descriptor dot returned, values have the shape
\* (samples.count(), features.count()) and gradients, when present, the
\* shape (gradients_samples.count(), features.count())
C19_ShapesAgree == ShapesAgree(d) /\ ShapesAgree(kernel)

\* a descriptor with gradients was densified along the species, and dot
\* returned a kernel with gradients for it: 1 x 4 values and gradients, a
\* 1 x 1 kernel with a 1 x 1 gradient
C19_Witness ==
    /\ call.op = "dot"
    /\ call.status = "Ok"
    /\ call.gradients
    /\ d.samples.names = <<"structure">>
    /\ Count(d.features) = 4
    /\ HasShape(d.values, 1, 4)
    /\ HasShape(Unwrap(d.gradients), 1, 4)
    /\ HasShape(kernel.values, 1, 1)
    /\ HasShape(Unwrap(kernel.gradients), 1, 1)


---------------------------------------------------------------------------
(* C20 *)

\* every entry of the matrix is 0
AllZero(array) ==
    \A i \in 1..Len(array.data) : \A j \in 1..Len(array.data[i]) :
        array.data[i][j] = 0

\* C20: after prepare(samples, features), whatever the descriptor held, the
\* samples and the features are the tables given, every entry of values is
\* 0 and there are neither gradients nor gradient samples; after
\* prepare_gradients the tables are the ones given and every entry of
\* values and of gradients is 0
C20_PrepareZeroFills ==
    /\ call.op = "prepare" =>
          /\ d.samples = call.given[1]
          /\ d.features = call.given[2]
          /\ AllZero(d.values)
          /\ d.gradients = None
          /\ d.gradients_samples = None
    /\ call.op = "prepare_gradients" =>
          /\ d.samples = call.given[1]
          /\ d.features = call.given[2]
          /\ d.gradients_samples = Some(call.given[3])
          /\ AllZero(d.values)
          /\ IsSome(d.gradients)
          /\ AllZero(Unwrap(d.gradients))

\* the descriptor held two rows of values and of gradients that a
\* calculator wrote after prepare_gradients; prepare left one row of zeros
\* and no gradients
C20_Witness ==
    /\ call.op = "prepare"
    /\ call.before.values.data = <<<<1, 2>>, <<3, 4>>>>
    /\ call.before.gradients
          = Some([nrows |-> 2, ncols |-> 2, data |-> <<<<11, 12>>, <<13, 14>>>>])
    /\ d.values.data = <<<<0, 0>>>>
    /\ d.gradients = None
    /\ d.gradients_samples = None

---------------------------------------------------------------------------
(* C21 *)

\* the descriptors the calculator filled from 0 or from 1: filled from 0, the
\* first value is 0, and with a single feature the first row is all zero (an
\* environment without any neighbor gives such a row)
NormalizedDescriptors ==
    {Filled(Prepare(New, samples, features), base) :
        samples \in SampleTables,
        features \in {IndexesOf(<<"n">>, <<<<0>>>>),
                      IndexesOf(<<"n">>, <<<<0>>, <<1>>>>)},
        base \in {0, 1}}

InitNormalize ==
    /\ d \in NormalizedDescriptors
    /\ call = Call("fill", <<>>, None, New, "Ok", {}, 0)
    /\ kernel = New

\* the self-kernel of values: the descriptor is both sides of dot
DoDotSelf ==
    /\ call.op = "fill"
    /\ \E reduce_across \in ReduceLists, normalize \in BOOLEAN :
        DotWith(d, DotOptions(reduce_across, normalize, FALSE))

SpecNormalize == InitNormalize /\ [][DoDotSelf]_vars

\* the call was the normalized self-kernel of values: dot(d, d, reduce_across,
\* gradients = false, normalize = true), and it returned a result
SelfKernel ==
    /\ DotOk
    /\ call.other = d
    /\ call.normalize
    /\ ~call.gradients

\* every entry on the diagonal of the kernel is 1
UnitDiagonal ==
    \A r \in 0..(kernel.values.nrows - 1) : OutputIs(r, r, 1)

\* the row r of the kernel has a norm of zero: no pair of old rows mapped to
\* it has a non-zero inner product
ZeroNorm(r) == Unwrap(call.norms).lhs[r + 1] = 0

\* C21 as stated: the diagonal of a normalized self-kernel is 1 everywhere
C21_Original == SelfKernel => UnitDiagonal

\* C21: in the normalized self-kernel of values, before the division the
\* entry (r, r) is the squared norm of the row r of both sides, so the entry
\* is 1 on every row whose norm is not zero; on a row whose norm is zero the
\* division is 0 / 0 and the entry is no number
C21_SelfKernelDiagonal ==
    SelfKernel =>
        \A r \in 0..(kernel.values.nrows - 1) :
            LET norms == Unwrap(call.norms)
            IN  /\ Entry(kernel.values, r, r) = norms.lhs[r + 1]
                /\ norms.rhs[r + 1] = norms.lhs[r + 1]
                /\ ~ZeroNorm(r) => OutputIs(r, r, 1)
                /\ ZeroNorm(r) => \A x \in -1..1 : ~OutputIs(r, r, x)

\* a self-kernel of two rows, reduced across species into one row whose
\* squared norm sums the matching pairs of both old rows
C21_Witness ==
    /\ SelfKernel
    /\ call.variables = <<"species">>
    /\ d.values.nrows = 2
    /\ d.values.ncols = 1
    /\ d.values.data[1][1] = 0
    /\ kernel.values.nrows = 1
    /\ ~ZeroNorm(0)
    /\ OutputIs(0, 0, 1)

---------------------------------------------------------------------------
(* C22 *)

\* left hand sides with values and gradients: any samples, any gradient
\* samples of ManyGradientTables, two features
OwnerDescriptors ==
    {Filled(PrepareGradients(New, samples, gradients,
                             IndexesOf(<<"n">>, <<<<0>>, <<1>>>>)), 1) :
        samples \in SampleTables, gradients \in ManyGradientTables}

InitOwner ==
    /\ d \in OwnerDescriptors
    /\ call = Call("fill", <<>>, None, New, "Ok", {}, 0)
    /\ kernel = New

\* dot of values and gradients with the values of the same samples
DoDotOwner ==
    /\ call.op = "fill"
    /\ \E reduce_across \in {<<>>, <<"species">>, <<"structure">>},
          normalize \in BOOLEAN :
        DotWith(Filled(Prepare(New, d.samples, d.features), 5),
                DotOptions(reduce_across, normalize, TRUE))

SpecOwner == InitOwner /\ [][DoDotOwner]_vars

\* the call was dot with gradients and normalize both requested
NormalizedGradients ==
    /\ call.op = "dot"
    /\ call.gradients
    /\ call.normalize

\* the value samples of the output that own the gradient sample `row`: the
\* rows equal to `row` without its last two columns
OwningSamples(samples, row) ==
    {i \in 0..(Count(samples) - 1) :
        Value(samples, i) = SubSeq(row, 1, Len(row) - 2)}

\* some gradient sample of the left hand side is, once reduced and without
\* its last two columns, none of the reduced samples
OwnerMissing ==
    LET gradients_samples == Unwrap(d.gradients_samples)
    IN  \E g \in 1..Count(gradients_samples) :
            LET reduced == ReducedSample(gradients_samples.names,
                               Value(gradients_samples, g - 1), call.variables)
            IN  \A s \in 1..Count(d.samples) :
                    ReducedSample(d.samples.names, Value(d.samples, s - 1),
                                  call.variables)
                        # SubSeq(reduced, 1, Len(reduced) - 2)

\* C22: in dot with gradients and normalize, every gradient row of the output
\* is divided by norm_lhs of the output sample equal to its gradient sample
\* without the last two columns; when reduce_across is known to the samples
\* and to the gradient samples and some gradient sample has no such output
\* sample, dot ends in a fatal failure, neither Ok nor InvalidParameter
C22_GradientsNormalizedByOwner ==
    NormalizedGradients =>
        /\ call.status = "Ok" =>
              LET rows  == Iter(Unwrap(kernel.gradients_samples))
                  norms == Unwrap(call.norms)
              IN  \A g \in 1..Len(rows) :
                      /\ OwningSamples(kernel.samples, rows[g]) # {}
                      /\ \A i \in OwningSamples(kernel.samples, rows[g]) :
                             norms.grad[g] = norms.lhs[i + 1]
        /\ (/\ d.features = call.other.features
            /\ ReduceAcrossKnown
            /\ IsSome(d.gradients_samples)
            /\ \A k \in 1..Len(call.variables) :
                   call.variables[k] \in Range(Unwrap(d.gradients_samples).names)
            /\ OwnerMissing)
              => call.status = "Panic"

\* a normalized kernel whose gradient row is owned by the second sample
C22_Witness ==
    /\ NormalizedGradients
    /\ call.status = "Ok"
    /\ Count(kernel.samples) = 2
    /\ \E g \in 1..Count(Unwrap(kernel.gradients_samples)) :
           /\ OwningSamples(kernel.samples,
                  Value(Unwrap(kernel.gradients_samples), g - 1)) = {1}
           /\ Unwrap(call.norms).grad[g] # Unwrap(call.norms).lhs[1]

\* a gradient sample without any owner made the normalization abort
C22_WitnessMissing ==
    /\ NormalizedGradients
    /\ call.variables = <<"species">>
    /\ Count(d.samples) > 0
    /\ OwnerMissing
    /\ call.status = "Panic"

---------------------------------------------------------------------------
(* IndexesBuilder and Indexes on their own: new, add, finish *)

MaxNameLen == 2
MaxAdds == 2

\* the characters of the names: a letter, a digit, the underscore, and one
\* that is none of them
Chars == {"a", "7", "_", "-"}

\* the names, each the sequence of its characters
Names == SeqsUpTo(Chars, MaxNameLen)

\* the lists of names handed to IndexesBuilder::new: none, one, or any name
\* next to the name "a" or the name "7"
NameLists ==
    {<<>>} \cup {<<name>> : name \in Names}
        \cup UNION {{<<name, other>>, <<other, name>>} :
                        name \in Names, other \in {<<"a">>, <<"7">>}}

\* the rows offered to add: of the size of the builder, one shorter or one
\* longer
RowsOffered(builder) ==
    UNION {[1..n -> IndexValues] :
            n \in {m \in (Size(builder) - 1)..(Size(builder) + 1) : m >= 0}}

\* the call on the builder or the Indexes: the names given to new, the
\* builder (None once new panicked or finish consumed it), the rows added
\* so far, the row offered last and the Indexes finish returned
BuilderCall(op, status, names, builder, added, row, indexes) ==
    [op |-> op, status |-> status, names |-> names, builder |-> builder,
     added |-> added, row |-> row, indexes |-> indexes]

InitIndexes ==
    /\ d = New
    /\ kernel = New
    /\ call = BuilderCall("start", "Ok", <<>>, None, <<>>, <<>>, None)

\* IndexesBuilder::new(names)
DoBuilderNew ==
    /\ call.op = "start"
    /\ \E names \in NameLists :
        call' = IF BuilderNewPanics(names)
                THEN BuilderCall("builder_new", "Panic", names, None, <<>>, <<>>, None)
                ELSE BuilderCall("builder_new", "Ok", names,
                                 Some(BuilderNew(names)), <<>>, <<>>, None)
    /\ UNCHANGED <<d, kernel>>

\* builder.add(row)
DoBuilderAdd ==
    /\ call.op \in {"builder_new", "add"}
    /\ call.status = "Ok"
    /\ Len(call.added) < MaxAdds
    /\ \E row \in RowsOffered(Unwrap(call.builder)) :
        call' = IF AddPanics(Unwrap(call.builder), row)
                THEN [call EXCEPT !.op = "add", !.status = "Panic", !.row = row,
                                  !.builder = None]
                ELSE [call EXCEPT !.op = "add", !.row = row,
                                  !.builder = Some(BuilderAdd(Unwrap(@), row)),
                                  !.added = Append(@, row)]
    /\ UNCHANGED <<d, kernel>>

\* builder.finish()
DoBuilderFinish ==
    /\ call.op \in {"builder_new", "add"}
    /\ call.status = "Ok"
    /\ call' = [call EXCEPT !.op = "finish", !.builder = None,
                            !.indexes = Some(Finish(Unwrap(call.builder)))]
    /\ UNCHANGED <<d, kernel>>

NextIndexes == DoBuilderNew \/ DoBuilderAdd \/ DoBuilderFinish

SpecIndexes == InitIndexes /\ [][NextIndexes]_vars

---------------------------------------------------------------------------
(* C23 *)

\* finish returned the Indexes
Sealed == call.op = "finish"

\* C23: an Indexes sealed after any sequence of add calls on a builder with
\* n >= 1 names has count() the number of add calls, size() n, a buffer of
\* count() * size() values, value(i) and the i-th item of iter() the i-th
\* added row, and iter() ends after count() rows; add of a row whose length
\* is not n is a fatal failure; an Indexes without any column has count() 0
C23_IndexesKeepAddedRows ==
    /\ (Sealed /\ Len(call.names) >= 1) =>
          LET idx == Unwrap(call.indexes)
          IN  /\ Count(idx) = Len(call.added)
              /\ Size(idx) = Len(call.names)
              /\ Len(idx.values) = Count(idx) * Size(idx)
              /\ \A i \in 0..(Count(idx) - 1) : Value(idx, i) = call.added[i + 1]
              /\ Iter(idx) = call.added
              /\ Len(Iter(idx)) = Count(idx)
    /\ call.op = "add" =>
          (call.status = "Panic") = (Len(call.row) # Len(call.names))
    /\ (Sealed /\ Len(call.names) = 0) => Count(Unwrap(call.indexes)) = 0

\* two names and the same row added twice, then sealed
C23_Witness ==
    /\ Sealed
    /\ Len(call.names) = 2
    /\ call.added = <<<<1, 0>>, <<1, 0>>>>
    /\ Count(Unwrap(call.indexes)) = 2
    /\ Value(Unwrap(call.indexes), 1) = <<1, 0>>

---------------------------------------------------------------------------
(* C24 *)

\* the name is not a valid identifier: empty, a digit in front, or a
\* character that is neither an ASCII letter or digit nor the underscore
NotIdentifier(name) ==
    \/ Len(name) = 0
    \/ Len(name) > 0 /\ IsAsciiDigit(name[1])
    \/ \E i \in 1..Len(name) : ~IsAsciiAlphanumeric(name[i]) /\ name[i] # "_"

\* C24: IndexesBuilder::new(names) fails fatally if and only if some name is
\* not a valid identifier; otherwise it returns an empty builder holding
\* exactly those names in order
C24_NewPanicsIffInvalidName ==
    call.op = "builder_new" =>
        /\ (call.status = "Panic") =
               (\E k \in 1..Len(call.names) : NotIdentifier(call.names[k]))
        /\ call.status = "Ok" =>
               /\ Unwrap(call.builder).names = call.names
               /\ Unwrap(call.builder).values = <<>>
               /\ Size(Unwrap(call.builder)) = Len(call.names)

\* a valid name followed by a name with a digit in front: new panics
C24_Witness ==
    /\ call.op = "builder_new"
    /\ call.names = <<<<"a">>, <<"7", "a">>>>
    /\ call.status = "Panic"

---------------------------------------------------------------------------
(* build_features_id on the three mappings of dot *)

\* the three calls of build_features_id in dot, sharing one map of ids: the
\* mapping of the lhs samples, then of the rhs samples, then of the lhs
\* gradient samples when gradients are requested
FeaturesIds(removed_lhs, removed_rhs, removed_grad) ==
    LET lhs_ids  == BuildFeaturesId(<<>>, removed_lhs.mapping, <<>>)
        rhs_ids  == BuildFeaturesId(lhs_ids.features, removed_rhs.mapping, <<>>)
        grad_ids == IF IsSome(removed_grad)
                    THEN BuildFeaturesId(rhs_ids.features,
                                         Unwrap(removed_grad).mapping, <<>>)
                    ELSE [features |-> rhs_ids.features, mapping |-> <<>>]
    IN  [lhs |-> lhs_ids.mapping, rhs |-> rhs_ids.mapping,
         grad |-> grad_ids.mapping]

\* left hand sides with gradients: samples and gradient samples of any keys
IdsDescriptors ==
    {Filled(PrepareGradients(New, samples, gradients,
                             IndexesOf(<<"n">>, <<<<0>>, <<1>>>>)), 1) :
        samples \in TablesOver(SampleNames, MaxOtherRows),
        gradients \in GradientTables}

InitIds ==
    /\ d \in IdsDescriptors
    /\ call = Call("fill", <<>>, None, New, "Ok", {}, 0)
    /\ kernel = New

\* dot up to the mappings with ids: the three remove_from_samples succeeded
DoBuildFeaturesId ==
    /\ call.op = "fill"
    /\ \E other \in Others(d.features),
          reduce_across \in {<<>>, <<"species">>, <<"structure">>,
                             <<"species", "structure">>},
          gradients \in BOOLEAN :
        LET removed_rhs  == RemoveFromSamples(other.samples, reduce_across)
            removed_lhs  == RemoveFromSamples(d.samples, reduce_across)
            removed_grad == IF gradients
                            THEN Some(RemoveFromSamples(Unwrap(d.gradients_samples),
                                                        reduce_across))
                            ELSE None
        IN  /\ removed_rhs.status = "Ok"
            /\ removed_lhs.status = "Ok"
            /\ gradients => Unwrap(removed_grad).status = "Ok"
            /\ call' = [op |-> "build_features_id", status |-> "Ok",
                        variables |-> reduce_across, other |-> other,
                        gradients |-> gradients,
                        removed |-> [lhs |-> removed_lhs.mapping,
                                     rhs |-> removed_rhs.mapping,
                                     grad |-> IF gradients
                                              THEN Unwrap(removed_grad).mapping
                                              ELSE <<>>],
                        ids |-> FeaturesIds(removed_lhs, removed_rhs, removed_grad)]
    /\ UNCHANGED <<d, kernel>>

SpecIds == InitIds /\ [][DoBuildFeaturesId]_vars

---------------------------------------------------------------------------
(* C25 *)

\* the entries of the three mappings in the order dot rewrites them
EntriesBefore == call.removed.lhs \o call.removed.rhs \o call.removed.grad

EntriesAfter == call.ids.lhs \o call.ids.rhs \o call.ids.grad

\* the distinct keys of the entries in front of entry k
KeysBefore(k) == {EntriesBefore[j].variables : j \in 1..(k - 1)}

---------------------------------------------------------------------------
(* C26 *)

\* the distinct reduced samples of the descriptor the last densify was
\* called on
ReducedSamples ==
    {ReducedSample(call.before.samples.names, row, call.variables) :
        row \in Range(Iter(call.before.samples))}

\* the last densify had no `requested`, a non-empty list of distinct names
\* that are all sample columns, and a descriptor with at least one feature
\* row, at least one sample row and no gradients
DensifyOfKnownColumns ==
    /\ call.op = "densify"
    /\ call.requested = None
    /\ call.variables # <<>>
    /\ PairwiseDistinct(call.variables)
    /\ ~UnknownVariable
    /\ Count(call.before.features) >= 1
    /\ Count(call.before.samples) >= 1
    /\ call.before.gradients_samples = None

\* C26: densify(variables, None) with distinct names of sample columns, on
\* a descriptor with at least one feature row and one sample row, returns
\* success and leaves one row of values per distinct reduced sample, also
\* when `variables` names every sample column
C26_DensifySucceeds ==
    DensifyOfKnownColumns =>
        /\ call.status = "Ok"
        /\ d.values.nrows = Cardinality(ReducedSamples)

\* the same with at least one sample column left
C26_WithColumnLeft ==
    (DensifyOfKnownColumns
        /\ Len(KeptNames(call.before.samples.names, call.variables)) >= 1) =>
        /\ call.status = "Ok"
        /\ d.values.nrows = Cardinality(ReducedSamples)

---------------------------------------------------------------------------
(* C27 *)

\* the last densify had no `requested` and names that are all sample
\* columns, not all of them, on a descriptor with at least one feature row
\* and no gradients
DensifyLeavingColumn ==
    /\ call.op = "densify"
    /\ call.requested = None
    /\ call.variables # <<>>
    /\ ~UnknownVariable
    /\ Len(KeptNames(call.before.samples.names, call.variables)) >= 1
    /\ Count(call.before.features) >= 1
    /\ call.before.gradients_samples = None

\* the samples after the call are the old rows without the named columns,
\* each as long as the names left
NamedColumnsRemoved ==
    /\ d.samples.names = KeptNames(call.before.samples.names, call.variables)
    /\ Len(d.samples.values) = Count(d.samples) * Size(d.samples)
    /\ Range(Iter(d.samples)) = ReducedSamples

\* C27: for a list of names that are all sample columns, a repeated name
\* included, the reduction removes exactly the named columns and the call
\* ends in success or InvalidParameter, never in a fatal failure
C27_RepeatedNamesReduce ==
    DensifyLeavingColumn =>
        /\ call.status \in {"Ok", "InvalidParameter"}
        /\ call.status = "Ok" => NamedColumnsRemoved

\* the same for lists without a repeated name
C27_DistinctNamesReduce ==
    (DensifyLeavingColumn /\ PairwiseDistinct(call.variables)) =>
        /\ call.status = "Ok"
        /\ NamedColumnsRemoved

---------------------------------------------------------------------------
(* C28 *)

\* densify without `requested`, up to MaxDensify times in a row
DoDensifyTwice ==
    /\ call.op \in {"prepare", "prepare_gradients", "fill", "densify"}
    /\ call.densified < MaxDensify
    /\ \E variables \in {<<"species">>, <<"structure">>, <<"species", "structure">>,
                          <<"structure", "center", "species">>} :
        DensifyWith(variables, None)

NextTwice == DoPrepare \/ DoPrepareGradients \/ DoFill \/ DoDensifyTwice

SpecTwice == Init /\ [][NextTwice]_vars

\* the state is the one a successful densify(variables, None) left, with
\* non-empty `variables` and at least one feature column before the call
DensifiedOnce ==
    /\ Densified
    /\ call.requested = None
    /\ call.variables # <<>>
    /\ Size(call.before.features) >= 1

\* the step is the next densify, with the same variables and no `requested`
SameDensifyAgain ==
    /\ call'.op = "densify"
    /\ call'.densified = call.densified + 1
    /\ call'.variables = call.variables
    /\ call'.requested = None

\* C28: after a successful densify(variables, None) with non-empty
\* `variables` on a descriptor with at least one feature, an immediate second
\* densify(variables, None) returns InvalidParameter and leaves the
\* descriptor as the first call left it
C28_DensifyNotRepeatable ==
    [][(DensifiedOnce /\ SameDensifyAgain) =>
            /\ call'.status = "InvalidParameter"
            /\ d' = d
            /\ call'.before = d]_vars

\* the second densify along the species was refused and the descriptor still
\* holds the block layout of the first
C28_Witness ==
    /\ call.op = "densify"
    /\ call.densified = 2
    /\ call.variables = <<"species">>
    /\ call.requested = None
    /\ call.status = "InvalidParameter"
    /\ d = call.before
    /\ d.features.names = <<"species", "n">>
    /\ "species" \notin Range(d.samples.names)
    /\ d.values.nrows >= 1
    /\ d.values.ncols >= 2

---------------------------------------------------------------------------
(* CellList: new, add_atom, pairs *)

MaxAtoms == 2

\* the number of values of a usize, taken smaller than the machine's: the
\* cast of a negative isize gives a number above every n_cells
UsizeModulus == 65536

\* const MAX_NUMBER_OF_CELLS
MAX_NUMBER_OF_CELLS == 100000

\* usize_clamp
UsizeClamp(x, min, max) ==
    LET raised == IF x < min THEN min ELSE x
    IN  IF raised > max THEN max ELSE raised

\* `value as usize` of an isize: a negative value wraps around
AsUsize(value) == value % UsizeModulus

\* divmod: the quotient and the remainder of the division truncated towards
\* zero, then moved so that the remainder is not negative
Divmod(a, b) ==
    LET quotient  == IF a >= 0 THEN a \div b ELSE -((-a) \div b)
        remainder == a - b * quotient
    IN  IF remainder < 0
        THEN [quotient |-> quotient - 1, remainder |-> remainder + b]
        ELSE [quotient |-> quotient, remainder |-> remainder]

\* divmod_vec
DivmodVec(a, b) ==
    [quotient  |-> [k \in 1..3 |-> Divmod(a[k], b[k]).quotient],
     remainder |-> [k \in 1..3 |-> Divmod(a[k], b[k]).remainder]]

\* the unit cells: infinite, or orthorhombic with the given distances between
\* its faces
UnitCells ==
    {[infinite |-> TRUE, distances |-> <<1, 1, 1>>],
     [infinite |-> FALSE, distances |-> <<1, 1, 1>>],
     [infinite |-> FALSE, distances |-> <<2, 1, 1>>]}

\* the cutoffs, as fractions: 1/2 and 1
Cutoffs == {[num |-> 1, den |-> 2], [num |-> 1, den |-> 1]}

\* n_cells of CellList::new: trunc(distance / cutoff), at least 1
NCells(unit_cell, cutoff) ==
    [k \in 1..3 |->
        LET cells == (unit_cell.distances[k] * cutoff.den) \div cutoff.num
        IN  IF cells < 1 THEN 1 ELSE cells]

\* n_search of CellList::new: trunc(cutoff * n_cells / distance), at least 1,
\* and 0 along an axis of one cell without periodic boundaries
NSearch(unit_cell, cutoff) ==
    [k \in 1..3 |->
        LET n_cells == NCells(unit_cell, cutoff)[k]
            search  == (cutoff.num * n_cells) \div (cutoff.den * unit_cell.distances[k])
        IN  IF n_cells = 1 /\ unit_cell.infinite THEN 0
            ELSE IF search < 1 THEN 1 ELSE search]

\* the indexes of the cells of an Array3 of shape n_cells
CellIndexes(n_cells) ==
    {<<x, y, z>> : x \in 0..(n_cells[1] - 1), y \in 0..(n_cells[2] - 1),
                   z \in 0..(n_cells[3] - 1)}

\* CellList::new, when the cells are not more than MAX_NUMBER_OF_CELLS
CellListNew(unit_cell, cutoff) ==
    [n_search  |-> NSearch(unit_cell, cutoff),
     n_cells   |-> NCells(unit_cell, cutoff),
     cells     |-> [cell \in CellIndexes(NCells(unit_cell, cutoff)) |-> <<>>],
     unit_cell |-> unit_cell]

\* the denominator of the coordinates of an atom: a coordinate p stands for
\* the fractional coordinate p / 2
Halves == 2

\* cell_index of add_atom: floor(fractional * n_cells)
CellIndex(self, position) ==
    [k \in 1..3 |-> (position[k] * self.n_cells[k]) \div Halves]

\* CellList::add_atom
AddAtom(self, index, position) ==
    LET cell_index == CellIndex(self, position)
        wrapped    == DivmodVec(cell_index, self.n_cells)
        placed     == IF self.unit_cell.infinite
                      THEN [shift |-> <<0, 0, 0>>,
                            cell  |-> [k \in 1..3 |->
                                UsizeClamp(AsUsize(cell_index[k]), 0,
                                           self.n_cells[k] - 1)]]
                      ELSE [shift |-> wrapped.quotient, cell |-> wrapped.remainder]
    IN  [self EXCEPT !.cells[placed.cell] =
            Append(@, [atom |-> index, shift |-> placed.shift])]

RECURSIVE Flatten(_)
Flatten(seqs) ==
    IF seqs = <<>> THEN <<>> ELSE Head(seqs) \o Flatten(Tail(seqs))

\* the cells in the order of indexed_iter: the last axis runs fastest
CellOrder(n_cells) ==
    [i \in 1..(n_cells[1] * n_cells[2] * n_cells[3]) |->
        <<(i - 1) \div (n_cells[2] * n_cells[3]),
          ((i - 1) \div n_cells[3]) % n_cells[2],
          (i - 1) % n_cells[3]>>]

\* the neighboring cells searched, as (delta_x, delta_y, delta_z) in the order
\* of the three nested loops
Deltas(n_search) ==
    LET width == [k \in 1..3 |-> 2 * n_search[k] + 1]
    IN  [i \in 1..(width[1] * width[2] * width[3]) |->
            <<((i - 1) \div (width[2] * width[3])) - n_search[1],
              (((i - 1) \div width[3]) % width[2]) - n_search[2],
              ((i - 1) % width[3]) - n_search[3]>>]

\* the pairs pushed for one cell and one neighboring cell
PairsOfCells(self, cell, delta) ==
    LET wrapped  == DivmodVec([k \in 1..3 |-> cell[k] + delta[k]], self.n_cells)
        current  == self.cells[cell]
        neighbor == self.cells[wrapped.remainder]
        shift(a, b) == [k \in 1..3 |->
            wrapped.quotient[k] + current[a].shift[k] - neighbor[b].shift[k]]
    IN  Flatten([a \in 1..Len(current) |->
            Flatten([b \in 1..Len(neighbor) |->
                IF current[a].atom > neighbor[b].atom THEN <<>>
                ELSE IF current[a].atom = neighbor[b].atom
                        /\ shift(a, b) = <<0, 0, 0>> THEN <<>>
                ELSE IF self.unit_cell.infinite /\ shift(a, b) # <<0, 0, 0>>
                THEN <<>>
                ELSE <<[first |-> current[a].atom, second |-> neighbor[b].atom,
                        shift |-> shift(a, b)]>>])])

\* CellList::pairs
Pairs(self) ==
    LET order  == CellOrder(self.n_cells)
        deltas == Deltas(self.n_search)
    IN  Flatten([c \in 1..Len(order) |->
            Flatten([i \in 1..Len(deltas) |->
                PairsOfCells(self, order[c], deltas[i])])])

\* the coordinates of an atom along the first axis, in halves: from -1/2 to
\* 3/2; the second axis takes 0 or 1/2, the third 0
Positions == {<<x, y, 0>> : x \in {-1, 0, 1, 2, 3}, y \in {0, 1}}

\* the call on the cell list: the list, the positions of the atoms added so
\* far (atom i is the i-th added, from 0) and the pairs returned
CellCall(op, list, atoms, pairs) ==
    [op |-> op, list |-> list, atoms |-> atoms, pairs |-> pairs]

InitCells ==
    /\ d = New
    /\ kernel = New
    /\ call = CellCall("start", <<>>, <<>>, <<>>)

\* CellList::new(unit_cell, cutoff)
DoCellListNew ==
    /\ call.op = "start"
    /\ \E unit_cell \in UnitCells, cutoff \in Cutoffs :
        LET n_cells == NCells(unit_cell, cutoff)
        IN  /\ n_cells[1] * n_cells[2] * n_cells[3] <= MAX_NUMBER_OF_CELLS
            /\ call' = CellCall("cell_list_new", CellListNew(unit_cell, cutoff),
                                <<>>, <<>>)
    /\ UNCHANGED <<d, kernel>>

\* cell_list.add_atom(index, position), the atoms numbered from 0
DoAddAtom ==
    /\ call.op \in {"cell_list_new", "add_atom"}
    /\ Len(call.atoms) < MaxAtoms
    /\ \E position \in Positions :
        call' = CellCall("add_atom", AddAtom(call.list, Len(call.atoms), position),
                         Append(call.atoms, position), <<>>)
    /\ UNCHANGED <<d, kernel>>

\* cell_list.pairs()
DoPairs ==
    /\ call.op \in {"cell_list_new", "add_atom"}
    /\ call' = [call EXCEPT !.op = "pairs", !.pairs = Pairs(call.list)]
    /\ UNCHANGED <<d, kernel>>

NextCells == DoCellListNew \/ DoAddAtom \/ DoPairs

SpecCells == InitCells /\ [][NextCells]_vars

---------------------------------------------------------------------------
(* C29 *)

\* the opposite of a shift
Opposite(shift) == [k \in 1..3 |-> -shift[k]]

\* the pairs are a half list as far as two different atoms go
HalfListOfDistinctAtoms ==
    \A p \in 1..Len(call.pairs) :
        LET pair == call.pairs[p]
        IN  /\ pair.first <= pair.second
            /\ ~(pair.first = pair.second /\ pair.shift = <<0, 0, 0>>)
            /\ call.list.unit_cell.infinite => pair.shift = <<0, 0, 0>>
            /\ \A q \in 1..Len(call.pairs) :
                  pair.first # pair.second =>
                    ~(/\ call.pairs[q].first = pair.second
                      /\ call.pairs[q].second = pair.first
                      /\ call.pairs[q].shift = Opposite(pair.shift))

\* no pair of an atom with its own image comes with the opposite pair
NoOppositeImages ==
    \A p, q \in 1..Len(call.pairs) :
        (call.pairs[p].first = call.pairs[p].second
            /\ call.pairs[q].first = call.pairs[p].first
            /\ call.pairs[q].second = call.pairs[p].first)
        => call.pairs[q].shift # Opposite(call.pairs[p].shift)

\* C29: pairs() returns a half neighbor list: first <= second in every pair,
\* no pair of an atom with itself at a zero shift, only zero shifts in an
\* infinite cell, and never a pair (i, j, shift) together with its reverse
\* (j, i, -shift), for i = j never (i, i, shift) together with (i, i, -shift)
C29_HalfNeighborList ==
    call.op = "pairs" => (HalfListOfDistinctAtoms /\ NoOppositeImages)

\* the part of C29 about pairs of two different atoms, zero shifts and
\* infinite cells
C29_DistinctAtoms == call.op = "pairs" => HalfListOfDistinctAtoms

---------------------------------------------------------------------------
(* C30 *)

\* the cell the atom `index` is stored in, and the shift stored with it
StoredCell(index) ==
    CHOOSE cell \in DOMAIN call.list.cells :
        \E e \in 1..Len(call.list.cells[cell]) : call.list.cells[cell][e].atom = index

StoredShift(index) ==
    LET entries == call.list.cells[StoredCell(index)]
    IN  entries[CHOOSE e \in 1..Len(entries) : entries[e].atom = index].shift

\* the nearest valid cell of a cell index along an axis of n cells
Nearest(index, n) ==
    IF index < 0 THEN 0 ELSE IF index >= n THEN n - 1 ELSE index

\* C30: add_atom in an infinite unit cell stores the atom in the nearest
\* valid cell along each axis, a negative cell index in cell 0 and one >=
\* n_cells in cell n_cells - 1, with the shift [0, 0, 0]
C30_InfiniteCellClamps ==
    (call.op = "add_atom" /\ call.list.unit_cell.infinite) =>
        LET index    == Len(call.atoms) - 1
            position == call.atoms[Len(call.atoms)]
        IN  /\ StoredShift(index) = <<0, 0, 0>>
            /\ \A k \in 1..3 :
                  StoredCell(index)[k] =
                    Nearest((position[k] * call.list.n_cells[k]) \div Halves,
                            call.list.n_cells[k])

\* the same for the atoms whose cell index is not negative
C30_ClampsFromAbove ==
    (call.op = "add_atom" /\ call.list.unit_cell.infinite
        /\ \A k \in 1..3 : call.atoms[Len(call.atoms)][k] >= 0) =>
        LET index    == Len(call.atoms) - 1
            position == call.atoms[Len(call.atoms)]
        IN  /\ StoredShift(index) = <<0, 0, 0>>
            /\ \A k \in 1..3 :
                  StoredCell(index)[k] =
                    Nearest((position[k] * call.list.n_cells[k]) \div Halves,
                            call.list.n_cells[k])

====
